---- MODULE Spec2Model ----
(***************************************************************************)
(* A model of package swissqr: validation of a Swiss QR-bill payload, its  *)
(* serialization to the SPC wire format, the structured bill information  *)
(* (S1) sub-encoding, and the reflow and truncation of text to a width.    *)
(*                                                                         *)
(* A Go string is modelled as what it is, a sequence of bytes (0..255).    *)
(* len(s) is the length of that sequence; "for _, r := range s" decodes    *)
(* it as UTF-8, one rune (code point) at a time.                           *)
(***************************************************************************)
EXTENDS Integers, Sequences, FiniteSets, TLC

VARIABLES op, p, e, bi, s, field, sink, out, writes, res,
          lines, maxWidth, reflowed, language, info, data

vars == <<op, p, e, bi, s, field, sink, out, writes, res,
          lines, maxWidth, reflowed, language, info, data>>

(***************************************************************************)
(* Bounds of the model.                                                    *)
(***************************************************************************)
\* Longest string, in characters, that the character-set inputs are drawn from.
MaxStrLen == 3

\* Longest field value, in characters, that the length inputs are drawn from.
MaxFieldLen == 142

(***************************************************************************)
(* Strings: bytes, UTF-8.                                                  *)
(***************************************************************************)
Max(a, b) == IF a >= b THEN a ELSE b

RECURSIVE Concat(_)
\* Concatenation of a sequence of strings (the Go "+" on strings).
Concat(ss) == IF ss = <<>> THEN <<>> ELSE Head(ss) \o Concat(Tail(ss))

RECURSIVE Join(_, _)
\* strings.Join(elems, sep).
Join(elems, sep) ==
    IF elems = <<>> THEN <<>>
    ELSE IF Len(elems) = 1 THEN elems[1]
    ELSE elems[1] \o sep \o Join(Tail(elems), sep)

\* strings.Repeat(str, n).
Repeat(str, n) ==
    IF n <= 0 \/ str = <<>> THEN <<>>
    ELSE [i \in 1..(n * Len(str)) |-> str[((i - 1) % Len(str)) + 1]]

Min(S) == CHOOSE x \in S : \A y \in S : x <= y

\* The UTF-8 encoding of code point r (Go: string(r), or a literal in the source).
Utf8(r) ==
    IF r < 128 THEN <<r>>
    ELSE IF r < 2048 THEN <<192 + (r \div 64), 128 + (r % 64)>>
    ELSE IF r < 65536 THEN
        <<224 + (r \div 4096), 128 + ((r \div 64) % 64), 128 + (r % 64)>>
    ELSE <<240 + (r \div 262144), 128 + ((r \div 4096) % 64),
           128 + ((r \div 64) % 64), 128 + (r % 64)>>

\* utf8.RuneError, what decoding yields for a byte that starts no valid encoding.
RuneError == 65533

IsCont(b) == b >= 128 /\ b <= 191

\* utf8.DecodeRuneInString(str[i:]): the rune at byte offset i and its width.
DecodeRune(str, i) ==
    LET n  == Len(str) - i + 1
        b0 == str[i]
        b1 == str[i + 1]
        b2 == str[i + 2]
        b3 == str[i + 3]
        bad == [rune |-> RuneError, size |-> 1]
    IN  IF b0 < 128 THEN [rune |-> b0, size |-> 1]
        ELSE IF b0 >= 194 /\ b0 <= 223 THEN
            IF n >= 2 /\ IsCont(b1)
            THEN [rune |-> (b0 - 192) * 64 + (b1 - 128), size |-> 2]
            ELSE bad
        ELSE IF b0 >= 224 /\ b0 <= 239 THEN
            IF n >= 3
               /\ b1 >= (IF b0 = 224 THEN 160 ELSE 128)
               /\ b1 <= (IF b0 = 237 THEN 159 ELSE 191)
               /\ IsCont(b2)
            THEN [rune |-> (b0 - 224) * 4096 + (b1 - 128) * 64 + (b2 - 128),
                  size |-> 3]
            ELSE bad
        ELSE IF b0 >= 240 /\ b0 <= 244 THEN
            IF n >= 4
               /\ b1 >= (IF b0 = 240 THEN 144 ELSE 128)
               /\ b1 <= (IF b0 = 244 THEN 143 ELSE 191)
               /\ IsCont(b2) /\ IsCont(b3)
            THEN [rune |-> (b0 - 240) * 262144 + (b1 - 128) * 4096
                           + (b2 - 128) * 64 + (b3 - 128),
                  size |-> 4]
            ELSE bad
        ELSE bad

\* Whether "range str" visits byte offset i, that is, whether a rune starts
\* there. Decoding starts at offset 1 and goes on after each rune; only
\* continuation bytes (0x80-0xBF) are ever skipped, so an offset is not
\* visited exactly when the nearest byte before it that is no continuation
\* byte starts a rune reaching over it.
IsStart(str, i) ==
    \/ ~IsCont(str[i])
    \/ ~\E j \in Max(1, i - 3)..(i - 1) :
            /\ ~IsCont(str[j])
            /\ \A k \in (j + 1)..(i - 1) : IsCont(str[k])
            /\ DecodeRune(str, j).size > i - j

\* The byte offsets "range str" visits.
RuneStarts(str) == {i \in 1..Len(str) : IsStart(str, i)}

\* []rune(str): the runes "range str" visits, in order.
Runes(str) ==
    LET starts == SelectSeq([i \in 1..Len(str) |-> i], LAMBDA i : IsStart(str, i))
    IN  [k \in 1..Len(starts) |-> DecodeRune(str, starts[k]).rune]

(***************************************************************************)
(* Errors. A Go error is modelled by its format string, the rune it names  *)
(* (-1 when it names none) and the string it quotes (empty when it quotes  *)
(* none or quotes a struct).                                               *)
(***************************************************************************)
Nil == [kind |-> "nil", msg |-> "", rune |-> -1, arg |-> <<>>]

Err(m, a) == [kind |-> "error", msg |-> m, rune |-> -1, arg |-> a]

\* A run-time panic: the call does not return.
Panic(m) == [kind |-> "panic", msg |-> m, rune |-> -1, arg |-> <<>>]

(***************************************************************************)
(* Character set.                                                          *)
(***************************************************************************)
\* The code points of the string validRunes.
validRunes ==
    (32..93) \cup (95..123) \cup {125, 126, 163, 180} \cup (192..194)
    \cup {196} \cup (199..207) \cup (209..212) \cup {214} \cup (217..220)
    \cup (223..226) \cup {228} \cup (231..239) \cup (241..244) \cup {246, 247}
    \cup (249..253)

\* The rune starting at the least offset of bad; -1 when bad is empty.
RuneAtFirst(str, bad) == IF bad = {} THEN -1 ELSE DecodeRune(str, Min(bad)).rune

RuneAtLast(str, bad) ==
    IF bad = {} THEN -1 ELSE DecodeRune(str, -Min({-i : i \in bad})).rune

\* The loop of ValidateCharacterSet: the first rune of str that
\* strings.ContainsRune(allowed, r) rejects; -1 when there is none.
FirstRuneNotIn(str, allowed) ==
    RuneAtFirst(str, {i \in RuneStarts(str) : DecodeRune(str, i).rune \notin allowed})

LastRuneNotIn(str, allowed) ==
    RuneAtLast(str, {i \in RuneStarts(str) : DecodeRune(str, i).rune \notin allowed})

RuneErr(r, str) ==
    [kind |-> "error", msg |-> "Rune %#U not allowed in string: %v",
     rune |-> r, arg |-> str]

\* r = -1: no rune was rejected, the loop ends and nil is returned.
RuneResult(r, str) == IF r = -1 THEN Nil ELSE RuneErr(r, str)

\* A faulty variant: every string passes.
ValidateCharacterSetNone(str) == Nil

\* A faulty variant: reports the last disallowed rune instead of the first.
ValidateCharacterSetLast(str) == RuneResult(LastRuneNotIn(str, validRunes), str)

ValidateCharacterSet(str) == RuneResult(FirstRuneNotIn(str, validRunes), str)

\* "if err := ...; err != nil { return err }" followed by rest.
Then(err, rest) == IF err # Nil THEN err ELSE rest

(***************************************************************************)
(* Literals of the source, as bytes.                                       *)
(***************************************************************************)
CRLF == <<13, 10>>                      \* "\r\n"
StrCH == <<67, 72>>                     \* "CH"
StrLI == <<76, 73>>                     \* "LI"
StrCHF == <<67, 72, 70>>                \* "CHF"
StrEUR == <<69, 85, 82>>                \* "EUR"
Str30 == <<51, 48>>                     \* "30"
Str31 == <<51, 49>>                     \* "31"
StrSPC == <<83, 80, 67>>                \* "SPC"
Str0200 == <<48, 50, 48, 48>>           \* "0200"
Str1 == <<49>>                          \* "1"
StrK == <<75>>                          \* "K"
StrS == <<83>>                          \* "S"
StrQRR == <<81, 82, 82>>                \* "QRR"
StrSCOR == <<83, 67, 79, 82>>           \* "SCOR"
StrNON == <<78, 79, 78>>                \* "NON"
StrEPD == <<69, 80, 68>>                \* "EPD"
StrS1 == <<47, 47, 83, 49>>             \* "//S1"
Tag10 == <<47, 49, 48, 47>>             \* "/10/"
Tag11 == <<47, 49, 49, 47>>             \* "/11/"
Tag20 == <<47, 50, 48, 47>>             \* "/20/"
Tag30 == <<47, 51, 48, 47>>             \* "/30/"
Tag31 == <<47, 51, 49, 47>>             \* "/31/"
Tag32 == <<47, 51, 50, 47>>             \* "/32/"
Tag33 == <<47, 51, 51, 47>>             \* "/33/"
Tag40 == <<47, 52, 48, 47>>             \* "/40/"
Colon == <<58>>                         \* ":"
Semicolon == <<59>>                     \* ";"
Dot == <<46>>                           \* "."
Minus == <<45>>                         \* "-"

(***************************************************************************)
(* Number formatting.                                                      *)
(***************************************************************************)
RECURSIVE Digits(_)
\* The decimal digits of n >= 0 (fmt's %d of a non-negative integer).
Digits(n) == IF n < 10 THEN <<48 + n>> ELSE Digits(n \div 10) \o <<48 + (n % 10)>>

\* fmt's %d.
FormatD(n) == IF n < 0 THEN Minus \o Digits(-n) ELSE Digits(n)

\* n >= 0 in exactly two digits.
TwoDigits(n) == <<48 + ((n \div 10) % 10), 48 + (n % 10)>>

\* A float64 amount: finite with sign, whole units and thousandths, or one
\* of the values NaN, +Inf, -Inf.
Amount(neg, units, milli) ==
    [kind |-> "finite", neg |-> neg, units |-> units, milli |-> milli]

ZeroAmount == Amount(FALSE, 0, 0)

\* a < 0.0 and a > 0.0 (both false of NaN).
AmountNegative(a) ==
    \/ a.kind = "-Inf"
    \/ a.kind = "finite" /\ a.neg /\ (a.units > 0 \/ a.milli > 0)

AmountPositive(a) ==
    \/ a.kind = "+Inf"
    \/ a.kind = "finite" /\ ~a.neg /\ (a.units > 0 \/ a.milli > 0)

\* fmt.Sprintf("%.2f", a). A float64 whose third decimal is exactly 5 rounds
\* by its binary expansion; the amounts of the model avoid that digit, so
\* the nearest hundredth is unique.
FormatF2(a) ==
    IF a.kind = "NaN" THEN <<78, 97, 78>>
    ELSE IF a.kind = "+Inf" THEN <<43, 73, 110, 102>>
    ELSE IF a.kind = "-Inf" THEN <<45, 73, 110, 102>>
    ELSE LET cents == (a.milli + 5) \div 10
             whole == IF cents = 100 THEN a.units + 1 ELSE a.units
         IN  (IF a.neg THEN Minus ELSE <<>>)
             \o Digits(whole) \o Dot \o TwoDigits(cents % 100)

\* fmt.Sprintf("%g", x) of a percentage or amount held in tenths, for
\* |x| < 100000 (where %g uses no exponent): the shortest decimal form.
FormatG(t) ==
    LET a == IF t < 0 THEN -t ELSE t
    IN  (IF t < 0 THEN Minus ELSE <<>>)
        \o Digits(a \div 10)
        \o (IF a % 10 = 0 THEN <<>> ELSE Dot \o <<48 + (a % 10)>>)

(***************************************************************************)
(* Data model.                                                             *)
(***************************************************************************)
\* The dynamic type of Entity.Address: nil, CombinedAddress, StructuredAddress,
\* or any other type implementing qrAddress (a pointer to either, a caller's
\* own type such as the tests' testAddress).
NoAddress ==
    [type |-> "nil", AddressLine1 |-> <<>>, AddressLine2 |-> <<>>,
     StreetName |-> <<>>, BuildingNumber |-> <<>>, PostCode |-> <<>>,
     TownName |-> <<>>]

CombinedAddress(l1, l2) ==
    [NoAddress EXCEPT !.type = "CombinedAddress",
                      !.AddressLine1 = l1, !.AddressLine2 = l2]

StructuredAddress(street, number, post, town) ==
    [NoAddress EXCEPT !.type = "StructuredAddress", !.StreetName = street,
                      !.BuildingNumber = number, !.PostCode = post,
                      !.TownName = town]

OtherAddress == [NoAddress EXCEPT !.type = "other"]

Entity(name, address, country) ==
    [Name |-> name, Address |-> address, CountryCode |-> country]

EmptyEntity == Entity(<<>>, NoAddress, <<>>)

\* *iban.IBAN: nil, or the fields the package reads.
NilIBAN ==
    [isNil |-> TRUE, Code |-> <<>>, PrintCode |-> <<>>, CountryCode |-> <<>>,
     BBAN |-> <<>>]

RECURSIVE Grouped(_, _)
\* str in groups of size characters, a shorter last group if need be, one
\* space between two groups.
Grouped(str, size) ==
    IF Len(str) <= size THEN str
    ELSE SubSeq(str, 1, size) \o <<32>> \o Grouped(SubSeq(str, size + 1, Len(str)), size)

\* iban.NewIBAN(code) for a well-formed code: country code, two check
\* digits, then the basic bank account number.
NewIBANOrDie(code) ==
    [isNil |-> FALSE, Code |-> code, PrintCode |-> Grouped(code, 4),
     CountryCode |-> SubSeq(code, 1, 2), BBAN |-> SubSeq(code, 5, Len(code))]

\* The dynamic type of PaymentReference.Number and its DigitalFormat().
NoReference == [type |-> "nil", digits |-> <<>>, print |-> <<>>]

\* time.Time as a calendar date; the zero Time is 1 January of year 1.
Date(y, m, d) == [y |-> y, m |-> m, d |-> d]

ZeroTime == Date(1, 1, 1)

IsZero(t) == t = ZeroTime

\* A faulty variant: t is u or later.
NotBefore(t, u) == <<t.y, t.m, t.d>> = <<u.y, u.m, u.d>> \/ t.y > u.y
                       \/ (t.y = u.y /\ t.m > u.m) \/ (t.y = u.y /\ t.m = u.m /\ t.d > u.d)

\* t.After(u).
After(t, u) ==
    \/ t.y > u.y
    \/ t.y = u.y /\ t.m > u.m
    \/ t.y = u.y /\ t.m = u.m /\ t.d > u.d

\* t.Format("060102").
Format060102(t) == TwoDigits(t.y % 100) \o TwoDigits(t.m) \o TwoDigits(t.d)

OneDate(y, m, d) == [Date |-> Date(y, m, d), End |-> ZeroTime]

StartAndEndDate(y1, m1, d1, y2, m2, d2) ==
    [Date |-> Date(y1, m1, d1), End |-> Date(y2, m2, d2)]

NoDates == [Date |-> ZeroTime, End |-> ZeroTime]

EmptyBill ==
    [InvoiceNumber |-> <<>>, InvoiceDate |-> NoDates,
     CustomerReference |-> <<>>, VATNumber |-> <<>>, VATDates |-> NoDates,
     VATRates |-> <<>>, VATImportTaxRates |-> <<>>, Conditions |-> <<>>]

\* RatePercent and Amount in tenths.
TaxRate(rate, amount) == [RatePercent |-> rate, Amount |-> amount]

\* DiscountPercent in tenths.
PaymentCondition(discount, days) ==
    [DiscountPercent |-> discount, NumberOfDays |-> days]

AlternativeProcedure(label, procedure) ==
    [Label |-> label, Procedure |-> procedure]

(***************************************************************************)
(* The ISO 3166-1 country codes of the map countryCodes.                   *)
(***************************************************************************)
countryCodes == {
    <<65, 68>>, <<65, 69>>, <<65, 70>>, <<65, 71>>, <<65, 73>>, <<65, 76>>,
    <<65, 77>>, <<65, 79>>, <<65, 81>>, <<65, 82>>, <<65, 83>>, <<65, 84>>,
    <<65, 85>>, <<65, 87>>, <<65, 88>>, <<65, 90>>, <<66, 65>>, <<66, 66>>,
    <<66, 68>>, <<66, 69>>, <<66, 70>>, <<66, 71>>, <<66, 72>>, <<66, 73>>,
    <<66, 74>>, <<66, 76>>, <<66, 77>>, <<66, 78>>, <<66, 79>>, <<66, 81>>,
    <<66, 82>>, <<66, 83>>, <<66, 84>>, <<66, 86>>, <<66, 87>>, <<66, 89>>,
    <<66, 90>>, <<67, 65>>, <<67, 67>>, <<67, 68>>, <<67, 70>>, <<67, 71>>,
    <<67, 72>>, <<67, 73>>, <<67, 75>>, <<67, 76>>, <<67, 77>>, <<67, 78>>,
    <<67, 79>>, <<67, 82>>, <<67, 85>>, <<67, 86>>, <<67, 87>>, <<67, 88>>,
    <<67, 89>>, <<67, 90>>, <<68, 69>>, <<68, 74>>, <<68, 75>>, <<68, 77>>,
    <<68, 79>>, <<68, 90>>, <<69, 67>>, <<69, 69>>, <<69, 71>>, <<69, 72>>,
    <<69, 82>>, <<69, 83>>, <<69, 84>>, <<70, 73>>, <<70, 74>>, <<70, 75>>,
    <<70, 77>>, <<70, 79>>, <<70, 82>>, <<71, 65>>, <<71, 66>>, <<71, 68>>,
    <<71, 69>>, <<71, 70>>, <<71, 71>>, <<71, 72>>, <<71, 73>>, <<71, 76>>,
    <<71, 77>>, <<71, 78>>, <<71, 80>>, <<71, 81>>, <<71, 82>>, <<71, 83>>,
    <<71, 84>>, <<71, 85>>, <<71, 87>>, <<71, 89>>, <<72, 75>>, <<72, 77>>,
    <<72, 78>>, <<72, 82>>, <<72, 84>>, <<72, 85>>, <<73, 68>>, <<73, 69>>,
    <<73, 76>>, <<73, 77>>, <<73, 78>>, <<73, 79>>, <<73, 81>>, <<73, 82>>,
    <<73, 83>>, <<73, 84>>, <<74, 69>>, <<74, 77>>, <<74, 79>>, <<74, 80>>,
    <<75, 69>>, <<75, 71>>, <<75, 72>>, <<75, 73>>, <<75, 77>>, <<75, 78>>,
    <<75, 80>>, <<75, 82>>, <<75, 87>>, <<75, 89>>, <<75, 90>>, <<76, 65>>,
    <<76, 66>>, <<76, 67>>, <<76, 73>>, <<76, 75>>, <<76, 82>>, <<76, 83>>,
    <<76, 84>>, <<76, 85>>, <<76, 86>>, <<76, 89>>, <<77, 65>>, <<77, 67>>,
    <<77, 68>>, <<77, 69>>, <<77, 70>>, <<77, 71>>, <<77, 72>>, <<77, 75>>,
    <<77, 76>>, <<77, 77>>, <<77, 78>>, <<77, 79>>, <<77, 80>>, <<77, 81>>,
    <<77, 82>>, <<77, 83>>, <<77, 84>>, <<77, 85>>, <<77, 86>>, <<77, 87>>,
    <<77, 88>>, <<77, 89>>, <<77, 90>>, <<78, 65>>, <<78, 67>>, <<78, 69>>,
    <<78, 70>>, <<78, 71>>, <<78, 73>>, <<78, 76>>, <<78, 79>>, <<78, 80>>,
    <<78, 82>>, <<78, 85>>, <<78, 90>>, <<79, 77>>, <<80, 65>>, <<80, 69>>,
    <<80, 70>>, <<80, 71>>, <<80, 72>>, <<80, 75>>, <<80, 76>>, <<80, 77>>,
    <<80, 78>>, <<80, 82>>, <<80, 83>>, <<80, 84>>, <<80, 87>>, <<80, 89>>,
    <<81, 65>>, <<82, 69>>, <<82, 79>>, <<82, 83>>, <<82, 85>>, <<82, 87>>,
    <<83, 65>>, <<83, 66>>, <<83, 67>>, <<83, 68>>, <<83, 69>>, <<83, 71>>,
    <<83, 72>>, <<83, 73>>, <<83, 74>>, <<83, 75>>, <<83, 76>>, <<83, 77>>,
    <<83, 78>>, <<83, 79>>, <<83, 82>>, <<83, 83>>, <<83, 84>>, <<83, 86>>,
    <<83, 88>>, <<83, 89>>, <<83, 90>>, <<84, 67>>, <<84, 68>>, <<84, 70>>,
    <<84, 71>>, <<84, 72>>, <<84, 74>>, <<84, 75>>, <<84, 76>>, <<84, 77>>,
    <<84, 78>>, <<84, 79>>, <<84, 82>>, <<84, 84>>, <<84, 86>>, <<84, 87>>,
    <<84, 90>>, <<85, 65>>, <<85, 71>>, <<85, 77>>, <<85, 83>>, <<85, 89>>,
    <<85, 90>>, <<86, 65>>, <<86, 67>>, <<86, 69>>, <<86, 71>>, <<86, 73>>,
    <<86, 78>>, <<86, 85>>, <<87, 70>>, <<87, 83>>, <<89, 69>>, <<89, 84>>,
    <<90, 65>>, <<90, 77>>, <<90, 87>> }

(***************************************************************************)
(* Validation (validate.go, structured.go).                                *)
(***************************************************************************)
\* regexp.MatchString("^[0-9]*$", str).
AllDigits(str) == \A i \in 1..Len(str) : str[i] >= 48 /\ str[i] <= 57

CombinedAddressValidate(ca) ==
    IF ca.AddressLine2 = <<>>
    THEN Err("Address line 2 must be set for address: %v", <<>>)
    ELSE
    Then(ValidateCharacterSet(ca.AddressLine1),
    Then(ValidateCharacterSet(ca.AddressLine2),
    IF Len(ca.AddressLine1) > 70
    THEN Err("Maximum address line length is 70 characters: %v", ca.AddressLine1)
    ELSE IF Len(ca.AddressLine2) > 70
    THEN Err("Maximum address line length is 70 characters: %v", ca.AddressLine2)
    ELSE Nil))

StructuredAddressValidate(sa) ==
    IF sa.PostCode = <<>> \/ sa.TownName = <<>>
    THEN Err("Must specify post code and town in address: %v", <<>>)
    ELSE
    Then(ValidateCharacterSet(sa.StreetName),
    Then(ValidateCharacterSet(sa.BuildingNumber),
    Then(ValidateCharacterSet(sa.PostCode),
    Then(ValidateCharacterSet(sa.TownName),
    IF Len(sa.StreetName) > 70
    THEN Err("Maximum street name length is 70 characters: %v", sa.StreetName)
    ELSE IF Len(sa.BuildingNumber) > 16
    THEN Err("Maximum building number length is 16 characters: %v", sa.BuildingNumber)
    ELSE IF Len(sa.PostCode) > 16
    THEN Err("Maximum post code length is 16 characters: %v", sa.PostCode)
    ELSE IF Len(sa.TownName) > 35
    THEN Err("Maximum town name length is 35 characters: %v", sa.TownName)
    ELSE Nil))))

\* A faulty variant: an entity with a name needs no address.
AddressValidateLax(a) ==
    IF a.type = "CombinedAddress" THEN CombinedAddressValidate(a)
    ELSE IF a.type = "StructuredAddress" THEN StructuredAddressValidate(a)
    ELSE Nil

\* The type switch that ends Entity.Validate.
AddressValidate(a) ==
    IF a.type = "CombinedAddress" THEN CombinedAddressValidate(a)
    ELSE IF a.type = "StructuredAddress" THEN StructuredAddressValidate(a)
    ELSE Err("Unsupported address type: %T", <<>>)

EntityValidate(en) ==
    IF en.Name = <<>> /\ en.Address.type = "nil" /\ en.CountryCode = <<>>
    THEN Nil
    ELSE IF en.Name = <<>> THEN Err("Name must be specified.", <<>>)
    ELSE IF Len(en.Name) > 70
    THEN Err("Maximum name length is 70 characters: %v", en.Name)
    ELSE
    Then(ValidateCharacterSet(en.Name),
    IF en.CountryCode = <<>>
    THEN Err("Country code must be specified for name: %v", en.Name)
    ELSE IF Len(Runes(en.CountryCode)) > 2
    THEN Err("Country should be given as two-letter code: %v", en.CountryCode)
    ELSE IF en.CountryCode \notin countryCodes
    THEN Err("Invalid country code: %v", en.CountryCode)
    ELSE AddressValidate(en.Address))

AccountNumberValidate(a) ==
    IF a.isNil THEN Err("No account specified", <<>>)
    ELSE IF a.CountryCode # StrCH /\ a.CountryCode # StrLI
    THEN Err("Only CH and LI accounts allowed: %v", a.PrintCode)
    ELSE Nil

\* A faulty variant: the length is taken of the amount cut, not rounded, to
\* two decimals.
PaymentAmountValidateCut(pa) ==
    IF pa.Currency # StrCHF /\ pa.Currency # StrEUR
    THEN Err("Currency must be CHF or EUR: %v", pa.Currency)
    ELSE IF AmountNegative(pa.Amount)
    THEN Err("Amount cannot be negative: %v", <<>>)
    ELSE IF Len(Digits(pa.Amount.units)) + 3 > 12
    THEN Err("Amount too large: %v", <<>>)
    ELSE Nil

PaymentAmountValidate(pa) ==
    IF pa.Currency # StrCHF /\ pa.Currency # StrEUR
    THEN Err("Currency must be CHF or EUR: %v", pa.Currency)
    ELSE IF AmountNegative(pa.Amount)
    THEN Err("Amount cannot be negative: %v", <<>>)
    ELSE IF Len(FormatF2(pa.Amount)) > 12
    THEN Err("Amount too large: %v", <<>>)
    ELSE Nil

PaymentReferenceValidate(r) ==
    IF r.type \in {"nil", "CreditorReference", "ReferenceNumber"} THEN Nil
    ELSE Err("Unknown reference type: %T", <<>>)

RECURSIVE TaxRatesValidate(_)
\* The loops of BillInformation.Validate over VATRates and VATImportTaxRates.
TaxRatesValidate(rates) ==
    IF rates = <<>> THEN Nil
    ELSE IF Head(rates).Amount < 0
    THEN Err("VAT amount may not be negative: %v", <<>>)
    ELSE IF Head(rates).RatePercent < 0
    THEN Err("VAT tax rate may not be negative: %v", <<>>)
    ELSE TaxRatesValidate(Tail(rates))

RECURSIVE ConditionsValidate(_)
\* The loop of BillInformation.Validate over Conditions.
ConditionsValidate(cs) ==
    IF cs = <<>> THEN Nil
    ELSE IF Head(cs).DiscountPercent < 0
    THEN Err("Discount may not be negative: %v", <<>>)
    ELSE IF Head(cs).NumberOfDays < 0
    THEN Err("Number of days may not be negative: %v", <<>>)
    ELSE ConditionsValidate(Tail(cs))

BillInformationValidate(b) ==
    Then(ValidateCharacterSet(b.InvoiceNumber),
    IF ~IsZero(b.InvoiceDate.End)
    THEN Err("Invoice date may not have an end date: %v", <<>>)
    ELSE
    Then(ValidateCharacterSet(b.CustomerReference),
    IF ~AllDigits(b.VATNumber)
    THEN Err("VAT number may only contain digits 0-9: %v", b.VATNumber)
    ELSE IF ~IsZero(b.VATDates.Date) /\ ~IsZero(b.VATDates.End)
            /\ ~After(b.VATDates.End, b.VATDates.Date)
    THEN Err("End date must come after start date: %v versus %v", <<>>)
    ELSE
    Then(TaxRatesValidate(b.VATRates),
    Then(TaxRatesValidate(b.VATImportTaxRates),
    ConditionsValidate(b.Conditions)))))

(***************************************************************************)
(* Structured bill information, the S1 sub-encoding (structured.go).       *)
(***************************************************************************)
\* dates.ToString.
DatesToString(d) ==
    IF IsZero(d.Date) THEN <<>>
    ELSE IF IsZero(d.End) THEN Format060102(d.Date)
    ELSE Format060102(d.Date) \o Format060102(d.End)

\* One element of the list TaxRates.ToString joins.
TaxRateField(rate) ==
    IF rate.Amount > 0
    THEN FormatG(rate.RatePercent) \o Colon \o FormatG(rate.Amount)
    ELSE FormatG(rate.RatePercent)

TaxRatesToString(t) ==
    Join([i \in 1..Len(t) |-> TaxRateField(t[i])], Semicolon)

PaymentConditionsToString(c) ==
    Join([i \in 1..Len(c) |->
             FormatG(c[i].DiscountPercent) \o Colon \o FormatD(c[i].NumberOfDays)],
         Semicolon)

\* 'if s != "" { result = result + tag + s }': what is appended to result.
Tagged(tag, str) == IF str # <<>> THEN tag \o str ELSE <<>>

\* 'if result != "" { result = "//S1" + result }'.
Marked(result) == IF result # <<>> THEN StrS1 \o result ELSE result

\* A faulty variant: the VAT dates (31) are written before the VAT number (30).
BillInformationToStringSwapped(b) ==
    Marked(Tagged(Tag10, b.InvoiceNumber)
           \o Tagged(Tag11, DatesToString(b.InvoiceDate))
           \o Tagged(Tag20, b.CustomerReference)
           \o Tagged(Tag31, DatesToString(b.VATDates))
           \o Tagged(Tag30, b.VATNumber)
           \o Tagged(Tag32, TaxRatesToString(b.VATRates))
           \o Tagged(Tag33, TaxRatesToString(b.VATImportTaxRates))
           \o Tagged(Tag40, PaymentConditionsToString(b.Conditions)))

\* BillInformation.ToString: result grows by one tagged field per if
\* statement, in the order of the statements.
BillInformationToString(b) ==
    Marked(Tagged(Tag10, b.InvoiceNumber)
           \o Tagged(Tag11, DatesToString(b.InvoiceDate))
           \o Tagged(Tag20, b.CustomerReference)
           \o Tagged(Tag30, b.VATNumber)
           \o Tagged(Tag31, DatesToString(b.VATDates))
           \o Tagged(Tag32, TaxRatesToString(b.VATRates))
           \o Tagged(Tag33, TaxRatesToString(b.VATImportTaxRates))
           \o Tagged(Tag40, PaymentConditionsToString(b.Conditions)))

(***************************************************************************)
(* Validation of the remaining parts and of the payload (validate.go).     *)
(***************************************************************************)
\* 'if s := ...; len(s) > 140'.
CombinedLength(str) ==
    IF Len(str) > 140 THEN Err("Maximum combined length is 140: %v", str) ELSE Nil

PaymentInformationValidate(pi) ==
    Then(ValidateCharacterSet(pi.UnstructuredMessage),
    Then(BillInformationValidate(pi.StructuredMessage),
    CombinedLength(pi.UnstructuredMessage
                   \o BillInformationToString(pi.StructuredMessage))))

RECURSIVE AlternativeProceduresLoop(_)
\* The range loop of AlternativeProcedures.Validate.
AlternativeProceduresLoop(vec) ==
    IF vec = <<>> THEN Nil
    ELSE
    Then(ValidateCharacterSet(Head(vec).Label),
    Then(ValidateCharacterSet(Head(vec).Procedure),
    IF Head(vec).Label = <<>> THEN Err("No label specified: %v", <<>>)
    ELSE IF Head(vec).Procedure = <<>>
    THEN Err("No procedure specified: %v", <<>>)
    ELSE IF Len(Head(vec).Procedure) > 100
    THEN Err("Maximum field length is 100 characters: %v", <<>>)
    ELSE AlternativeProceduresLoop(Tail(vec))))

\* A faulty variant: the number of entries is not limited.
AlternativeProceduresValidateAnyNumber(vec) == AlternativeProceduresLoop(vec)

AlternativeProceduresValidate(vec) ==
    IF Len(vec) > 2
    THEN Err("Maximum two alternate payment schemes allowed: %v", <<>>)
    ELSE AlternativeProceduresLoop(vec)

\* A faulty variant: the account and the reference are never compared.
CrossFieldValidateSkipped(pl) == Nil

\* Lines 58-78 of Payload.Validate: the QR-IBAN rule. BBAN[:2] panics when
\* the BBAN has fewer than two bytes.
CrossFieldValidate(pl) ==
    IF Len(pl.Account.BBAN) < 2
    THEN Panic("slice bounds out of range")
    ELSE IF SubSeq(pl.Account.BBAN, 1, 2) = Str30
            \/ SubSeq(pl.Account.BBAN, 1, 2) = Str31
    THEN IF pl.Reference.type = "nil"
         THEN Err("QR Reference number required for QR-IBAN: %v", pl.Account.PrintCode)
         ELSE IF pl.Reference.type # "ReferenceNumber"
         THEN Err("QR Reference number required for QR-IBAN: %v", pl.Account.PrintCode)
         ELSE Nil
    ELSE IF pl.Reference.type # "nil" /\ pl.Reference.type = "ReferenceNumber"
    THEN Err("QR Reference not allowed for IBAN: %v", pl.Account.PrintCode)
    ELSE Nil

\* Faulty variants: the creditor's name is not asked for; an ultimate
\* creditor is let through.
CreditorNameOptional(pl) == Nil

UltimateCreditorAllowed(pl) == Nil

\* Lines 49-57 of Payload.Validate.
CreditorNameValidate(pl) ==
    IF pl.Creditor.Name = <<>> THEN Err("No creditor name specified.", <<>>)
    ELSE Nil

UltimateCreditorNameValidate(pl) ==
    IF pl.UltimateCreditor.Name # <<>>
    THEN Err("UltimateCreditor is currently not supported.", <<>>)
    ELSE Nil

\* A faulty variant: the amount is checked before the creditor.
PayloadValidateReordered(pl) ==
    Then(AccountNumberValidate(pl.Account),
    Then(PaymentAmountValidate(pl.CurrencyAmount),
    Then(EntityValidate(pl.Creditor),
    Then(EntityValidate(pl.UltimateCreditor),
    Then(EntityValidate(pl.UltimateDebtor),
    Then(PaymentReferenceValidate(pl.Reference),
    Then(PaymentInformationValidate(pl.AdditionalInformation),
    Then(AlternativeProceduresValidate(pl.AlternativeProcedureParameters),
    Then(CreditorNameValidate(pl),
    Then(UltimateCreditorNameValidate(pl),
    CrossFieldValidate(pl)))))))))))

PayloadValidate(pl) ==
    Then(AccountNumberValidate(pl.Account),
    Then(EntityValidate(pl.Creditor),
    Then(EntityValidate(pl.UltimateCreditor),
    Then(PaymentAmountValidate(pl.CurrencyAmount),
    Then(EntityValidate(pl.UltimateDebtor),
    Then(PaymentReferenceValidate(pl.Reference),
    Then(PaymentInformationValidate(pl.AdditionalInformation),
    Then(AlternativeProceduresValidate(pl.AlternativeProcedureParameters),
    Then(CreditorNameValidate(pl),
    Then(UltimateCreditorNameValidate(pl),
    CrossFieldValidate(pl)))))))))))

(***************************************************************************)
(* The sink. An io.Writer is modelled by the bytes it has accepted, the    *)
(* number of Write calls made on it, and which calls it fails: call number *)
(* failAt (0: none) and, when sticky, every call after it. A failed call   *)
(* accepts no bytes.                                                       *)
(***************************************************************************)
ErrIO == Err("write failed", <<>>)

GoodSink == [failAt |-> 0, sticky |-> FALSE]

NewWriter(sk) == [out |-> <<>>, n |-> 0, sink |-> sk, err |-> Nil]

Fails(sk, k) ==
    /\ sk.failAt # 0
    /\ IF sk.sticky THEN k >= sk.failAt ELSE k = sk.failAt

\* io.WriteString(w, str): the writer afterwards, err the error returned.
WriteString(w, str) ==
    IF Fails(w.sink, w.n + 1)
    THEN [w EXCEPT !.n = w.n + 1, !.err = ErrIO]
    ELSE [w EXCEPT !.n = w.n + 1, !.out = w.out \o str, !.err = Nil]

(***************************************************************************)
(* Serialization (Payload.Serialize and the records it writes). Each       *)
(* operator yields the writer afterwards; its err field is the error the   *)
(* Go method returns.                                                      *)
(***************************************************************************)
AccountNumberSerialize(a, w) == WriteString(w, a.Code)

CombinedAddressSerialize(ca, name, w) ==
    WriteString(w, Join(<<StrK, name, ca.AddressLine1, ca.AddressLine2,
                          <<>>, <<>> >>, CRLF))

StructuredAddressSerialize(sa, name, w) ==
    WriteString(w, Join(<<StrS, name, sa.StreetName, sa.BuildingNumber,
                          sa.PostCode, sa.TownName>>, CRLF))

\* e.Address.Serialize(e.Name, w): dynamic dispatch on the address. A nil
\* interface panics; a caller's own type does what it likes, here (as the
\* tests' testAddress) nothing.
AddressSerialize(a, name, w) ==
    IF a.type = "CombinedAddress" THEN CombinedAddressSerialize(a, name, w)
    ELSE IF a.type = "StructuredAddress" THEN StructuredAddressSerialize(a, name, w)
    ELSE IF a.type = "nil"
    THEN [w EXCEPT !.err = Panic("nil pointer dereference")]
    ELSE [w EXCEPT !.err = Nil]

\* Lines 80-85 of Entity.Serialize: w1 is the writer as
\* e.Address.Serialize left it, whose error is returned before the country
\* code is written.
EntityCountrySerialize(en, w1) ==
    IF w1.err # Nil THEN w1 ELSE WriteString(w1, CRLF \o en.CountryCode)

\* A faulty variant: the empty entity is followed by a country-code line.
EntitySerializeSevenLines(en, w) ==
    IF en.Name = <<>> THEN WriteString(w, Repeat(CRLF, 6) \o CRLF \o en.CountryCode)
    ELSE EntityCountrySerialize(en, AddressSerialize(en.Address, en.Name, w))

EntitySerialize(en, w) ==
    IF en.Name = <<>> THEN WriteString(w, Repeat(CRLF, 6))
    ELSE EntityCountrySerialize(en, AddressSerialize(en.Address, en.Name, w))

\* A faulty variant: the amount is written whether it is set or not.
PaymentAmountSerializeAlways(pa, w) ==
    WriteString(w, FormatF2(pa.Amount) \o CRLF \o pa.Currency)

PaymentAmountSerialize(pa, w) ==
    WriteString(w, (IF AmountPositive(pa.Amount) THEN FormatF2(pa.Amount) ELSE <<>>)
                   \o CRLF \o pa.Currency)

\* The switch has no default: another type writes nothing and returns nil.
PaymentReferenceSerialize(pr, w) ==
    IF pr.type = "ReferenceNumber" THEN WriteString(w, StrQRR \o CRLF \o pr.digits)
    ELSE IF pr.type = "CreditorReference"
    THEN WriteString(w, StrSCOR \o CRLF \o pr.digits)
    ELSE IF pr.type = "nil" THEN WriteString(w, StrNON \o CRLF)
    ELSE [w EXCEPT !.err = Nil]

PaymentInformationSerialize(pi, w) ==
    WriteString(w, pi.UnstructuredMessage \o CRLF \o StrEPD \o CRLF
                   \o BillInformationToString(pi.StructuredMessage))

\* A faulty variant: a slot without an entry is left out, not written empty.
AlternativeProceduresSerializeDense(vec, w) ==
    IF Len(vec) > 2 THEN [w EXCEPT !.err = Panic("index out of range")]
    ELSE WriteString(w, Join([i \in 1..Len(vec) |-> vec[i].Procedure], CRLF))

\* apJoin[i] = ap.Procedure for i = 0, 1; a third entry indexes out of range.
AlternativeProceduresSerialize(vec, w) ==
    IF Len(vec) > 2 THEN [w EXCEPT !.err = Panic("index out of range")]
    ELSE WriteString(w, Join(<<IF Len(vec) >= 1 THEN vec[1].Procedure ELSE <<>>,
                               IF Len(vec) >= 2 THEN vec[2].Procedure ELSE <<>> >>,
                             CRLF))

\* Payload.Serialize from one record on. w is the writer as the record
\* before left it: that record's error is returned ("if err := ...; err !=
\* nil { return err }"); otherwise "\r\n" is written, its error dropped, and
\* the next record is written to the writer as that write left it.
\* Lines 59-62: the alternative procedures.
WriteFromProcedures(pl, w) ==
    IF w.err # Nil THEN w
    ELSE AlternativeProceduresSerialize(pl.AlternativeProcedureParameters,
                                        WriteString(w, CRLF))

\* Lines 55-58: the additional information.
WriteFromInformation(pl, w) ==
    IF w.err # Nil THEN w
    ELSE WriteFromProcedures(pl,
             PaymentInformationSerialize(pl.AdditionalInformation,
                                         WriteString(w, CRLF)))

\* Lines 51-54: the reference.
WriteFromReference(pl, w) ==
    IF w.err # Nil THEN w
    ELSE WriteFromInformation(pl,
             PaymentReferenceSerialize(pl.Reference, WriteString(w, CRLF)))

\* Lines 47-50: the debtor.
WriteFromDebtor(pl, w) ==
    IF w.err # Nil THEN w
    ELSE WriteFromReference(pl,
             EntitySerialize(pl.UltimateDebtor, WriteString(w, CRLF)))

\* Lines 43-46: the amount.
WriteFromAmount(pl, w) ==
    IF w.err # Nil THEN w
    ELSE WriteFromDebtor(pl,
             PaymentAmountSerialize(pl.CurrencyAmount, WriteString(w, CRLF)))

\* Lines 39-42: the ultimate creditor.
WriteFromUltimateCreditor(pl, w) ==
    IF w.err # Nil THEN w
    ELSE WriteFromAmount(pl,
             EntitySerialize(pl.UltimateCreditor, WriteString(w, CRLF)))

\* Lines 35-38: the creditor.
WriteFromCreditor(pl, w) ==
    IF w.err # Nil THEN w
    ELSE WriteFromUltimateCreditor(pl,
             EntitySerialize(pl.Creditor, WriteString(w, CRLF)))

\* A faulty variant: the amount record is written before the creditor's.
PayloadWriteAmountFirst(pl, w0) ==
    WriteFromCreditor(pl,
        PaymentAmountSerialize(pl.CurrencyAmount,
            WriteString(
                AccountNumberSerialize(pl.Account,
                    WriteString(w0, StrSPC \o CRLF \o Str0200 \o CRLF \o Str1 \o CRLF)),
                CRLF)))

\* The writes of Payload.Serialize after its validation, lines 31-63: the
\* header, whose error is dropped, then the account and the records after
\* it.
PayloadWrite(pl, w0) ==
    WriteFromCreditor(pl,
        AccountNumberSerialize(pl.Account,
            WriteString(w0, StrSPC \o CRLF \o Str0200 \o CRLF \o Str1 \o CRLF)))

\* A faulty variant: the payload is written before the failure is returned.
CheckedLate(err, w0, written) ==
    IF err # Nil THEN [written EXCEPT !.err = err] ELSE written

\* "if err := p.Validate(); err != nil { return err }": nothing is written.
Checked(err, w0, written) == IF err # Nil THEN [w0 EXCEPT !.err = err] ELSE written

\* A faulty variant: no validation, the payload is written as it is.
PayloadSerializeUnchecked(pl, w0) == PayloadWrite(pl, w0)

\* Payload.Serialize.
PayloadSerialize(pl, w0) == Checked(PayloadValidate(pl), w0, PayloadWrite(pl, w0))

\* barcode_qr.Encode and barcode.Scale are outside the package: each may
\* succeed or fail.
ErrQR == Err("qr encoding failed", <<>>)

\* 'if err != nil { return nil, err }' after barcode_qr.Encode.
Encoded(buffer, encodes) ==
    IF buffer.err # Nil THEN buffer
    ELSE IF ~encodes THEN [buffer EXCEPT !.err = ErrQR]
    ELSE buffer

\* CreateQR up to the error it returns: buffer is a bytes.Buffer, whose
\* writes never fail; encodes tells whether the barcode library succeeds.
CreateQR(pl, encodes) == Encoded(PayloadSerialize(pl, NewWriter(GoodSink)), encodes)

(***************************************************************************)
(* Text layout: glyph widths, reflow and truncation.                       *)
(*                                                                         *)
(* A width is a multiple of the font's point size. The glyph table gives   *)
(* every width to three decimals, so the model counts in thousandths and   *)
(* a maximum width is a whole number of thousandths; sums and comparisons  *)
(* are exact.                                                              *)
(***************************************************************************)
\* The table regularWX: the width of every glyph of Helvetica the package
\* lists, by code point, in thousandths of the point size.
regularWXTable ==
    ((32 :> 278 @@ 33 :> 278 @@ 34 :> 355 @@ 35 :> 556 @@ 36 :> 556 @@ 37 :> 889)
      @@ (38 :> 667 @@ 39 :> 191 @@ 40 :> 333 @@ 41 :> 333 @@ 42 :> 389 @@ 43 :> 584)
      @@ (44 :> 278 @@ 45 :> 333 @@ 46 :> 278 @@ 47 :> 278 @@ 48 :> 556 @@ 49 :> 556)
      @@ (50 :> 556 @@ 51 :> 556 @@ 52 :> 556 @@ 53 :> 556 @@ 54 :> 556 @@ 55 :> 556)
      @@ (56 :> 556 @@ 57 :> 556 @@ 58 :> 278 @@ 59 :> 278 @@ 60 :> 584 @@ 61 :> 584)
      @@ (62 :> 584 @@ 63 :> 556 @@ 64 :> 1015 @@ 65 :> 667 @@ 66 :> 667 @@ 67 :> 722)
      @@ (68 :> 722 @@ 69 :> 667 @@ 70 :> 611 @@ 71 :> 778 @@ 72 :> 722 @@ 73 :> 278)
      @@ (74 :> 500 @@ 75 :> 667 @@ 76 :> 556 @@ 77 :> 833 @@ 78 :> 722 @@ 79 :> 778))
    @@
    ((80 :> 667 @@ 81 :> 778 @@ 82 :> 722 @@ 83 :> 667 @@ 84 :> 611 @@ 85 :> 722)
      @@ (86 :> 667 @@ 87 :> 944 @@ 88 :> 667 @@ 89 :> 667 @@ 90 :> 611 @@ 91 :> 278)
      @@ (92 :> 278 @@ 93 :> 278 @@ 94 :> 469 @@ 95 :> 556 @@ 96 :> 333 @@ 97 :> 556)
      @@ (98 :> 556 @@ 99 :> 500 @@ 100 :> 556 @@ 101 :> 556 @@ 102 :> 278 @@ 103 :> 556)
      @@ (104 :> 556 @@ 105 :> 222 @@ 106 :> 222 @@ 107 :> 500 @@ 108 :> 222 @@ 109 :> 833)
      @@ (110 :> 556 @@ 111 :> 556 @@ 112 :> 556 @@ 113 :> 556 @@ 114 :> 333 @@ 115 :> 500)
      @@ (116 :> 278 @@ 117 :> 556 @@ 118 :> 500 @@ 119 :> 722 @@ 120 :> 500 @@ 121 :> 500)
      @@ (122 :> 500 @@ 123 :> 334 @@ 124 :> 260 @@ 125 :> 334 @@ 126 :> 584 @@ 161 :> 333))
    @@
    ((162 :> 556 @@ 163 :> 556 @@ 164 :> 556 @@ 165 :> 556 @@ 166 :> 260 @@ 167 :> 556)
      @@ (168 :> 333 @@ 169 :> 737 @@ 170 :> 370 @@ 171 :> 556 @@ 172 :> 584 @@ 174 :> 737)
      @@ (175 :> 333 @@ 176 :> 400 @@ 177 :> 584 @@ 178 :> 333 @@ 179 :> 333 @@ 180 :> 333)
      @@ (181 :> 556 @@ 182 :> 537 @@ 183 :> 278 @@ 184 :> 333 @@ 185 :> 333 @@ 186 :> 365)
      @@ (187 :> 556 @@ 188 :> 834 @@ 189 :> 834 @@ 190 :> 834 @@ 191 :> 611 @@ 192 :> 667)
      @@ (193 :> 667 @@ 194 :> 667 @@ 195 :> 667 @@ 196 :> 667 @@ 197 :> 667 @@ 198 :> 1000)
      @@ (199 :> 722 @@ 200 :> 667 @@ 201 :> 667 @@ 202 :> 667 @@ 203 :> 667 @@ 204 :> 278)
      @@ (205 :> 278 @@ 206 :> 278 @@ 207 :> 278 @@ 208 :> 722 @@ 209 :> 722 @@ 210 :> 778))
    @@
    ((211 :> 778 @@ 212 :> 778 @@ 213 :> 778 @@ 214 :> 778 @@ 215 :> 584 @@ 216 :> 778)
      @@ (217 :> 722 @@ 218 :> 722 @@ 219 :> 722 @@ 220 :> 722 @@ 221 :> 667 @@ 222 :> 667)
      @@ (223 :> 611 @@ 224 :> 556 @@ 225 :> 556 @@ 226 :> 556 @@ 227 :> 556 @@ 228 :> 556)
      @@ (229 :> 556 @@ 230 :> 889 @@ 231 :> 500 @@ 232 :> 556 @@ 233 :> 556 @@ 234 :> 556)
      @@ (235 :> 556 @@ 236 :> 278 @@ 237 :> 278 @@ 238 :> 278 @@ 239 :> 278 @@ 240 :> 556)
      @@ (241 :> 556 @@ 242 :> 556 @@ 243 :> 556 @@ 244 :> 556 @@ 245 :> 556 @@ 246 :> 556)
      @@ (247 :> 584 @@ 248 :> 611 @@ 249 :> 556 @@ 250 :> 556 @@ 251 :> 556 @@ 252 :> 556)
      @@ (253 :> 500 @@ 254 :> 556 @@ 255 :> 500 @@ 256 :> 667 @@ 257 :> 556 @@ 258 :> 667))
    @@
    ((259 :> 556 @@ 260 :> 667 @@ 261 :> 556 @@ 262 :> 722 @@ 263 :> 500 @@ 268 :> 722)
      @@ (269 :> 500 @@ 270 :> 722 @@ 271 :> 643 @@ 272 :> 722 @@ 273 :> 556 @@ 274 :> 667)
      @@ (275 :> 556 @@ 278 :> 667 @@ 279 :> 556 @@ 280 :> 667 @@ 281 :> 556 @@ 282 :> 667)
      @@ (283 :> 556 @@ 286 :> 778 @@ 287 :> 556 @@ 290 :> 778 @@ 291 :> 556 @@ 298 :> 278)
      @@ (299 :> 278 @@ 302 :> 278 @@ 303 :> 222 @@ 304 :> 278 @@ 305 :> 278 @@ 310 :> 667)
      @@ (311 :> 500 @@ 313 :> 556 @@ 314 :> 222 @@ 315 :> 556 @@ 316 :> 222 @@ 317 :> 556)
      @@ (318 :> 299 @@ 321 :> 556 @@ 322 :> 222 @@ 323 :> 722 @@ 324 :> 556 @@ 325 :> 722)
      @@ (326 :> 556 @@ 327 :> 722 @@ 328 :> 556 @@ 332 :> 778 @@ 333 :> 556 @@ 336 :> 778))
    @@
    ((337 :> 556 @@ 338 :> 1000 @@ 339 :> 944 @@ 340 :> 722 @@ 341 :> 333 @@ 342 :> 722)
      @@ (343 :> 333 @@ 344 :> 722 @@ 345 :> 333 @@ 346 :> 667 @@ 347 :> 500 @@ 350 :> 667)
      @@ (351 :> 500 @@ 352 :> 667 @@ 353 :> 500 @@ 354 :> 611 @@ 355 :> 278 @@ 356 :> 611)
      @@ (357 :> 317 @@ 362 :> 722 @@ 363 :> 556 @@ 366 :> 722 @@ 367 :> 556 @@ 368 :> 722)
      @@ (369 :> 556 @@ 370 :> 722 @@ 371 :> 556 @@ 376 :> 667 @@ 377 :> 611 @@ 378 :> 500)
      @@ (379 :> 611 @@ 380 :> 500 @@ 381 :> 611 @@ 382 :> 500 @@ 402 :> 556 @@ 536 :> 667)
      @@ (537 :> 500 @@ 710 :> 333 @@ 711 :> 333 @@ 728 :> 333 @@ 729 :> 333 @@ 730 :> 333)
      @@ (731 :> 333 @@ 732 :> 333 @@ 733 :> 333 @@ 8211 :> 556 @@ 8212 :> 1000 @@ 8216 :> 222))
    @@
    ((8217 :> 222 @@ 8218 :> 222 @@ 8220 :> 333 @@ 8221 :> 333 @@ 8222 :> 333 @@ 8224 :> 556)
      @@ (8225 :> 556 @@ 8226 :> 350 @@ 8230 :> 1000 @@ 8240 :> 1000 @@ 8249 :> 333 @@ 8250 :> 333)
      @@ (8260 :> 167 @@ 8364 :> 556 @@ 8482 :> 1000 @@ 8706 :> 476 @@ 8710 :> 612 @@ 8721 :> 600)
      @@ (8722 :> 584 @@ 8730 :> 453 @@ 8800 :> 549 @@ 8804 :> 549 @@ 8805 :> 549 @@ 9674 :> 471)
      @@ (63171 :> 250 @@ 64257 :> 500 @@ 64258 :> 500))

\* regularWX[r], with the default 1.0 of the callers for a rune the table
\* lacks.
regularWX(r) ==
    IF r \in DOMAIN regularWXTable THEN regularWXTable[r] ELSE 1000

RECURSIVE SumWidths(_)
SumWidths(rs) == IF rs = <<>> THEN 0 ELSE regularWX(Head(rs)) + SumWidths(Tail(rs))

\* stringWidth(s): the sum of the widths of the runes of s.
stringWidth(str) == SumWidths(Runes(str))

\* The loop variables of the reflow functions.
Flow(done, currentLine, currentWidth) ==
    [reflowed |-> done, currentLine |-> currentLine, currentWidth |-> currentWidth]

\* The flush with the append left out: the current line is lost.
FlushLosingLine(st) == Flow(st.reflowed, <<>>, 0)

\* reflowed = append(reflowed, currentLine); currentLine = ""; currentWidth = 0.0
Flush(st) == Flow(Append(st.reflowed, st.currentLine), <<>>, 0)

\* currentWidth = currentWidth + w; currentLine = currentLine + string(r)
AddRune(st, r, width) ==
    Flow(st.reflowed, st.currentLine \o Utf8(r), st.currentWidth + regularWX(r))

\* The body of the loop breaking as soon as the line is full, not over-full.
PlaceRuneEager(st, r, width) ==
    IF st.currentWidth + regularWX(r) >= width
    THEN AddRune(Flush(st), r, width)
    ELSE AddRune(st, r, width)

\* The body of "for _, r := range ..." in both reflow functions.
PlaceRune(st, r, width) ==
    IF st.currentWidth + regularWX(r) > width
    THEN AddRune(Flush(st), r, width)
    ELSE AddRune(st, r, width)

RECURSIVE PlaceRunes(_, _, _)
\* The loop over the runes rs. (A width is never negative; the test makes
\* the state of the loop a value at every turn, as it is in the code.)
PlaceRunes(st, rs, width) ==
    IF rs = <<>> \/ st.currentWidth < 0 THEN st
    ELSE PlaceRunes(PlaceRune(st, Head(rs), width), Tail(rs), width)

\* unicode.IsSpace(r).
IsSpace(r) ==
    \/ r \in 9..13
    \/ r \in {32, 133, 160, 5760, 8232, 8233, 8239, 8287, 12288}
    \/ r \in 8192..8202

\* strings.Fields(str): the maximal runs of non-space runes of str, in order.
stringsFields(str) ==
    LET rs == Runes(str)
        n  == Len(rs)
        first == SelectSeq([i \in 1..n |-> i],
                     LAMBDA i : ~IsSpace(rs[i]) /\ (i = 1 \/ IsSpace(rs[i - 1])))
        end(i) == Min({j \in i..n : j = n \/ IsSpace(rs[j + 1])})
    IN  [k \in 1..Len(first) |->
            Concat([j \in 1..(end(first[k]) - first[k] + 1) |-> Utf8(rs[first[k] + j - 1])])]

\* One input line of reflowAtRune.
ReflowLineAtRune(line, width) ==
    IF stringWidth(line) < width THEN <<line>>
    ELSE Flush(PlaceRunes(Flow(<<>>, <<>>, 0), Runes(line), width)).reflowed

\* reflowAtRune(lines, maxWidth).
reflowAtRune(ls, width) ==
    Concat([i \in 1..Len(ls) |-> ReflowLineAtRune(ls[i], width)])

\* currentWidth = currentWidth + spaceWidth; currentLine = currentLine + " "
AddSpace(st) ==
    IF st.currentLine # <<>>
    THEN Flow(st.reflowed, st.currentLine \o <<32>>, st.currentWidth + regularWX(32))
    ELSE st

\* "Check if we should break before this word."
BreakOrSpace(st, w, width) ==
    IF st.currentLine # <<>> /\ st.currentWidth + regularWX(32) + w > width
    THEN Flush(st)
    ELSE AddSpace(st)

\* currentWidth = currentWidth + w; currentLine = currentLine + word
AddWord(st, word) ==
    Flow(st.reflowed, st.currentLine \o word, st.currentWidth + stringWidth(word))

\* The body of "for _, word := range strings.Fields(line)".
PlaceWord(st, word, width) ==
    IF stringWidth(word) > width
    THEN PlaceRunes(AddSpace(st), Runes(word), width)
    ELSE AddWord(BreakOrSpace(st, stringWidth(word), width), word)

RECURSIVE PlaceWords(_, _, _)
PlaceWords(st, words, width) ==
    IF words = <<>> \/ st.currentWidth < 0 THEN st
    ELSE PlaceWords(PlaceWord(st, Head(words), width), Tail(words), width)

\* One input line of reflowAtSpace.
ReflowLineAtSpace(line, width) ==
    IF stringWidth(line) < width THEN <<line>>
    ELSE Flush(PlaceWords(Flow(<<>>, <<>>, 0), stringsFields(line), width)).reflowed

\* reflowAtSpace(lines, maxWidth).
reflowAtSpace(ls, width) ==
    Concat([i \in 1..Len(ls) |-> ReflowLineAtSpace(ls[i], width)])

\* suffix := "…"
Ellipsis == Utf8(8230)

RECURSIVE ShortenLoop(_, _, _, _, _)
\* The loop of shortenToWidth from the rune at the head of rs on.
ShortenLoop(rs, shortened, currentWidth, line, width) ==
    IF rs = <<>> THEN line
    ELSE IF currentWidth + stringWidth(Ellipsis) + regularWX(Head(rs)) > width
         THEN shortened \o Ellipsis
         ELSE ShortenLoop(Tail(rs), shortened \o Utf8(Head(rs)),
                          currentWidth + regularWX(Head(rs)), line, width)

\* shortenToWidth(line, maxWidth).
shortenToWidth(line, width) == ShortenLoop(Runes(line), <<>>, 0, line, width)

(***************************************************************************)
(* Inputs. Payloads are the tests' minimalCorrectPayload with at most      *)
(* MaxDeviations of its parts (the sink counted as one) replaced by        *)
(* another value.                                                          *)
(***************************************************************************)
\* How many parts of a payload differ from minimalCorrectPayload.
MaxDeviations == 2

\* The last Write call that a failing sink fails first.
MaxFailAt == 3

StrName == <<78, 97, 109, 101>>                         \* "Name"
StrNaejm == <<78, 195, 166, 106, 109>>                  \* "Næjm"
StrTestCreditor ==
    <<84, 101, 115, 116, 32, 67, 114, 101, 100, 105, 116, 111, 114>>
StrTestAddress == <<84, 101, 115, 116, 32, 65, 100, 100, 114, 101, 115, 115>>
StrZuerich == <<56, 48, 48, 48, 32, 90, 195, 188, 114, 105, 99, 104>>  \* "8000 Zürich"
StrRueDuLac == <<82, 117, 101, 32, 100, 117, 32, 76, 97, 99>>
Str1268 == <<49, 50, 54, 56>>
Str2501 == <<50, 53, 48, 49>>
StrBiel == <<66, 105, 101, 108>>
StrPia == <<80, 105, 97>>
StrXX == <<88, 88>>
StrCHE == <<67, 72, 69>>
StrCyrillic == <<209, 128, 209, 132>>                   \* "рф"
StrLowerCH == <<99, 104>>                               \* "ch"
StrBill == <<66, 105, 108, 108, 32, 110, 111, 46, 32, 49>>  \* "Bill no. 1"
StrNumero17 == <<226, 132, 150, 49, 55>>                \* "№17"
StrInvoiceNo == <<49, 48, 50, 48, 49, 52, 48, 57>>      \* "10201409"
StrCustomer == <<49, 52, 48, 48, 46, 48, 48, 48, 45, 53, 51>>  \* "1400.000-53"
StrVATNo == <<49, 48, 54, 48, 49, 55, 48, 56, 54>>      \* "106017086"
StrRef == <<114, 101, 102>>                             \* "ref"
StrAB == <<97, 47, 98>>                                 \* "a/b"
StrL1 == <<76, 49>>
StrP1 == <<80, 49>>
StrL2 == <<76, 50>>
StrP2 == <<80, 50>>
StrL3 == <<76, 51>>
StrP3 == <<80, 51>>
LetterA == <<97>>                                       \* "a"
LetterAUml == <<195, 164>>                              \* "ä"

\* "CH5604835012345678009", the tests' ordinary account.
BaseAccount ==
    NewIBANOrDie(<<67, 72, 53, 54, 48, 52, 56, 51, 53, 48, 49, 50, 51, 52, 53,
                   54, 55, 56, 48, 48, 57>>)

\* "CH4431999123000889012", the tests' QR-IBAN.
QRAccount31 ==
    NewIBANOrDie(<<67, 72, 52, 52, 51, 49, 57, 57, 57, 49, 50, 51, 48, 48, 48,
                   56, 56, 57, 48, 49, 50>>)

\* "CH5730000123000889012".
QRAccount30 ==
    NewIBANOrDie(<<67, 72, 53, 55, 51, 48, 48, 48, 48, 49, 50, 51, 48, 48, 48,
                   56, 56, 57, 48, 49, 50>>)

\* "LI21088100002324013AA".
LIAccount ==
    NewIBANOrDie(<<76, 73, 50, 49, 48, 56, 56, 49, 48, 48, 48, 48, 50, 51, 50,
                   52, 48, 49, 51, 65, 65>>)

\* "DE89370400440532013000".
DEAccount ==
    NewIBANOrDie(<<68, 69, 56, 57, 51, 55, 48, 52, 48, 48, 52, 52, 48, 53, 51,
                   50, 48, 49, 51, 48, 48, 48>>)

\* &iban.IBAN{Code: "CH", CountryCode: "CH", BBAN: bban}, set field by field.
AssignedIBAN(bban) ==
    [isNil |-> FALSE, Code |-> StrCH, PrintCode |-> StrCH, CountryCode |-> StrCH,
     BBAN |-> bban]

AccountAlts ==
    {QRAccount31, QRAccount30, LIAccount, DEAccount, NilIBAN,
     AssignedIBAN(<<>>), AssignedIBAN(<<51>>)}

BaseCreditor ==
    Entity(StrTestCreditor, CombinedAddress(<<>>, StrTestAddress), StrCH)

StructuredEntity ==
    Entity(StrPia, StructuredAddress(StrRueDuLac, Str1268, Str2501, StrBiel), StrCH)

CreditorAlts ==
    {StructuredEntity, EmptyEntity,
     Entity(StrNaejm, CombinedAddress(<<>>, StrZuerich), StrCH),
     Entity(StrName, NoAddress, StrCH),
     Entity(<<>>, NoAddress, StrCH)}

UltimateCreditorAlts == {BaseCreditor, Entity(StrName, NoAddress, <<>>)}

BaseAmount == [Amount |-> ZeroAmount, Currency |-> StrCHF]

AmountAlts ==
    {[Amount |-> Amount(FALSE, 3949, 750), Currency |-> StrCHF],
     [Amount |-> Amount(FALSE, 1234, 568), Currency |-> StrEUR],
     [Amount |-> ZeroAmount, Currency |-> <<85, 83, 68>>],
     [Amount |-> Amount(TRUE, 1, 0), Currency |-> StrCHF],
     [Amount |-> Amount(FALSE, 999999999, 996), Currency |-> StrCHF]}

DebtorAlts ==
    {StructuredEntity,
     Entity(StrName, CombinedAddress(<<>>, StrZuerich), StrXX),
     Entity(StrName, OtherAddress, StrCH)}

QRDigits ==
    <<50, 49, 48, 48, 48, 48, 48, 48, 48, 48, 48, 51, 49, 51, 57,
      52, 55, 49, 52, 51, 48, 48, 48, 57, 48, 49, 55>>

\* structref.NewReferenceNumberOrDie("210000000003139471430009017"), whose
\* print format is "21 00000 00003 13947 14300 09017".
QRReference ==
    [type |-> "ReferenceNumber",
     digits |-> QRDigits,
     print |-> SubSeq(QRDigits, 1, 2) \o <<32>> \o Grouped(SubSeq(QRDigits, 3, 27), 5)]

ISODigits ==
    <<82, 70, 56, 51, 49, 50, 51, 52, 53, 54, 55, 56, 57, 49, 50,
      51, 52, 53, 54, 55, 56, 57, 49, 50>>

\* structref.NewCreditorReferenceOrDie("RF8312345678912345678912"), whose
\* print format is "RF83 1234 5678 9123 4567 8912".
ISOReference ==
    [type |-> "CreditorReference",
     digits |-> ISODigits,
     print |-> Grouped(ISODigits, 4)]

\* Some other type implementing structref.Printer.
OtherReference == [type |-> "other", digits |-> StrRef, print |-> <<>>]

ReferenceAlts == {QRReference, ISOReference, OtherReference}

\* The bill of the tests' TestStructuredExample1.
ExampleBill ==
    [EmptyBill EXCEPT !.InvoiceNumber = StrInvoiceNo,
                      !.InvoiceDate = OneDate(2019, 5, 12),
                      !.CustomerReference = StrCustomer,
                      !.VATNumber = StrVATNo,
                      !.VATDates = OneDate(2018, 5, 8),
                      !.VATRates = <<TaxRate(77, 0)>>,
                      !.Conditions = <<PaymentCondition(20, 10),
                                       PaymentCondition(0, 30)>>]

PaymentInformation(msg, bill) ==
    [UnstructuredMessage |-> msg, StructuredMessage |-> bill]

BaseInformation == PaymentInformation(<<>>, EmptyBill)

InformationAlts ==
    {PaymentInformation(StrBill, EmptyBill),
     PaymentInformation(StrBill, ExampleBill),
     PaymentInformation(StrNumero17, EmptyBill),
     PaymentInformation(Repeat(LetterA, 141), EmptyBill),
     PaymentInformation(<<97>> \o CRLF \o <<98>>, EmptyBill),
     PaymentInformation(<<>>,
         [EmptyBill EXCEPT !.InvoiceDate = StartAndEndDate(2017, 5, 17, 2017, 5, 21)])}

ProcedureAlts ==
    {<<AlternativeProcedure(StrL1, StrP1)>>,
     <<AlternativeProcedure(StrL1, StrP1), AlternativeProcedure(StrL2, StrP2)>>,
     <<AlternativeProcedure(StrL1, StrP1), AlternativeProcedure(StrL2, StrP2),
       AlternativeProcedure(StrL3, StrP3)>>,
     <<AlternativeProcedure(<<>>, StrP1)>>}

FailingSinks == [failAt : 1..MaxFailAt, sticky : BOOLEAN]

Sinks == {GoodSink} \cup FailingSinks

PayloadParts ==
    {"Account", "Creditor", "UltimateCreditor", "CurrencyAmount",
     "UltimateDebtor", "Reference", "AdditionalInformation",
     "AlternativeProcedureParameters", "sink"}

Deviations == {d \in SUBSET PayloadParts : Cardinality(d) <= MaxDeviations}

\* The values part takes when the parts in d deviate.
Choose(part, d, base, alts) == IF part \in d THEN alts ELSE {base}

Payloads(d) ==
    [Account : Choose("Account", d, BaseAccount, AccountAlts),
     Creditor : Choose("Creditor", d, BaseCreditor, CreditorAlts),
     UltimateCreditor :
         Choose("UltimateCreditor", d, EmptyEntity, UltimateCreditorAlts),
     CurrencyAmount : Choose("CurrencyAmount", d, BaseAmount, AmountAlts),
     UltimateDebtor : Choose("UltimateDebtor", d, EmptyEntity, DebtorAlts),
     Reference : Choose("Reference", d, NoReference, ReferenceAlts),
     AdditionalInformation :
         Choose("AdditionalInformation", d, BaseInformation, InformationAlts),
     AlternativeProcedureParameters :
         Choose("AlternativeProcedureParameters", d, <<>>, ProcedureAlts)]

MinimalCorrectPayload ==
    [Account |-> BaseAccount, Creditor |-> BaseCreditor,
     UltimateCreditor |-> EmptyEntity, CurrencyAmount |-> BaseAmount,
     UltimateDebtor |-> EmptyEntity, Reference |-> NoReference,
     AdditionalInformation |-> BaseInformation,
     AlternativeProcedureParameters |-> <<>>]

(***************************************************************************)
(* Spec: a caller holds a payload and a sink and calls Validate, Serialize *)
(* and CreateQR on them. op names the last call, res what it returned,     *)
(* out and writes what the sink (for CreateQR, its buffer) received.       *)
(***************************************************************************)
Idle ==
    /\ op = "init"
    /\ res = Nil
    /\ out = <<>>
    /\ writes = 0
    /\ reflowed = <<>>
    /\ language = <<>>
    /\ info = 0
    /\ data = <<>>

\* No text is laid out: the layout functions' inputs are empty.
NoText ==
    /\ lines = <<>>
    /\ maxWidth = 0

Init ==
    /\ Idle
    /\ NoText
    /\ \E d \in Deviations :
          /\ p \in Payloads(d)
          /\ sink \in Choose("sink", d, GoodSink, FailingSinks)
    /\ e = EmptyEntity
    /\ bi = EmptyBill
    /\ s = <<>>
    /\ field = "none"

\* The call named name is made on the inputs as constructed and returns w.
\* No call changes its inputs, so a later call would return what it returns
\* on the constructed inputs; one call is followed per behaviour.
Returned(name, w) ==
    /\ op = "init"
    /\ op' = name
    /\ res' = w.err
    /\ out' = w.out
    /\ writes' = w.n

CallValidate ==
    /\ Returned("Validate", [NewWriter(sink) EXCEPT !.err = PayloadValidate(p)])
    /\ UNCHANGED <<p, e, bi, s, field, sink, lines, maxWidth, reflowed, language, info, data>>

CallSerialize ==
    /\ Returned("Serialize", PayloadSerialize(p, NewWriter(sink)))
    /\ UNCHANGED <<p, e, bi, s, field, sink, lines, maxWidth, reflowed, language, info, data>>

CallCreateQR ==
    /\ \E encodes \in BOOLEAN : Returned("CreateQR", CreateQR(p, encodes))
    /\ UNCHANGED <<p, e, bi, s, field, sink, lines, maxWidth, reflowed, language, info, data>>

\* The record methods a caller can also call on their own, on the record of
\* the payload and a fresh writer on the sink.
CallAmountSerialize ==
    /\ Returned("PaymentAmount.Serialize",
                PaymentAmountSerialize(p.CurrencyAmount, NewWriter(sink)))
    /\ UNCHANGED <<p, e, bi, s, field, sink, lines, maxWidth, reflowed, language, info, data>>

CallProceduresSerialize ==
    /\ Returned("AlternativeProcedures.Serialize",
                AlternativeProceduresSerialize(p.AlternativeProcedureParameters,
                                               NewWriter(sink)))
    /\ UNCHANGED <<p, e, bi, s, field, sink, lines, maxWidth, reflowed, language, info, data>>

\* The language codes the layout entry points are called with: "de", "fr",
\* "it", "en", and the unsupported "sv", "DE" and "".
LanguageInputs ==
    {<<100, 101>>, <<102, 114>>, <<105, 116>>, <<101, 110>>, <<115, 118>>,
     <<68, 69>>, <<>>}

\* The table headings: for each heading, its text in each language.
headings ==
    [paymentPart |->
      \* de: "Zahlteil"
      <<100, 101>> :>
          <<90, 97, 104, 108, 116, 101, 105, 108>> @@
      \* fr: "Section paiement"
      <<102, 114>> :>
          <<83, 101, 99, 116, 105, 111, 110, 32, 112, 97, 105, 101, 109,
          101, 110, 116>> @@
      \* it: "Sezione pagamento"
      <<105, 116>> :>
          <<83, 101, 122, 105, 111, 110, 101, 32, 112, 97, 103, 97, 109,
          101, 110, 116, 111>> @@
      \* en: "Payment part"
      <<101, 110>> :>
          <<80, 97, 121, 109, 101, 110, 116, 32, 112, 97, 114, 116>>,
     accountPayableTo |->
      \* de: "Konto / Zahlbar an"
      <<100, 101>> :>
          <<75, 111, 110, 116, 111, 32, 47, 32, 90, 97, 104, 108, 98, 97,
          114, 32, 97, 110>> @@
      \* fr: "Compte / Payable à"
      <<102, 114>> :>
          <<67, 111, 109, 112, 116, 101, 32, 47, 32, 80, 97, 121, 97, 98,
          108, 101, 32, 195, 160>> @@
      \* it: "Conto / Pagabile a"
      <<105, 116>> :>
          <<67, 111, 110, 116, 111, 32, 47, 32, 80, 97, 103, 97, 98, 105,
          108, 101, 32, 97>> @@
      \* en: "Account / Payable to"
      <<101, 110>> :>
          <<65, 99, 99, 111, 117, 110, 116, 32, 47, 32, 80, 97, 121, 97,
          98, 108, 101, 32, 116, 111>>,
     reference |->
      \* de: "Referenz"
      <<100, 101>> :>
          <<82, 101, 102, 101, 114, 101, 110, 122>> @@
      \* fr: "Référence"
      <<102, 114>> :>
          <<82, 195, 169, 102, 195, 169, 114, 101, 110, 99, 101>> @@
      \* it: "Riferimento"
      <<105, 116>> :>
          <<82, 105, 102, 101, 114, 105, 109, 101, 110, 116, 111>> @@
      \* en: "Reference"
      <<101, 110>> :>
          <<82, 101, 102, 101, 114, 101, 110, 99, 101>>,
     additionalInformation |->
      \* de: "Zusätzliche Informationen"
      <<100, 101>> :>
          <<90, 117, 115, 195, 164, 116, 122, 108, 105, 99, 104, 101, 32,
          73, 110, 102, 111, 114, 109, 97, 116, 105, 111, 110, 101, 110>> @@
      \* fr: "Informations supplémentaires"
      <<102, 114>> :>
          <<73, 110, 102, 111, 114, 109, 97, 116, 105, 111, 110, 115, 32,
          115, 117, 112, 112, 108, 195, 169, 109, 101, 110, 116, 97, 105,
          114, 101, 115>> @@
      \* it: "Informazioni supplementari"
      <<105, 116>> :>
          <<73, 110, 102, 111, 114, 109, 97, 122, 105, 111, 110, 105, 32,
          115, 117, 112, 112, 108, 101, 109, 101, 110, 116, 97, 114, 105>> @@
      \* en: "Additional information"
      <<101, 110>> :>
          <<65, 100, 100, 105, 116, 105, 111, 110, 97, 108, 32, 105, 110,
          102, 111, 114, 109, 97, 116, 105, 111, 110>>,
     currency |->
      \* de: "Währung"
      <<100, 101>> :>
          <<87, 195, 164, 104, 114, 117, 110, 103>> @@
      \* fr: "Monnaie"
      <<102, 114>> :>
          <<77, 111, 110, 110, 97, 105, 101>> @@
      \* it: "Valuta"
      <<105, 116>> :>
          <<86, 97, 108, 117, 116, 97>> @@
      \* en: "Currency"
      <<101, 110>> :>
          <<67, 117, 114, 114, 101, 110, 99, 121>>,
     amount |->
      \* de: "Betrag"
      <<100, 101>> :>
          <<66, 101, 116, 114, 97, 103>> @@
      \* fr: "Montant"
      <<102, 114>> :>
          <<77, 111, 110, 116, 97, 110, 116>> @@
      \* it: "Importo"
      <<105, 116>> :>
          <<73, 109, 112, 111, 114, 116, 111>> @@
      \* en: "Amount"
      <<101, 110>> :>
          <<65, 109, 111, 117, 110, 116>>,
     receipt |->
      \* de: "Empfangsschein"
      <<100, 101>> :>
          <<69, 109, 112, 102, 97, 110, 103, 115, 115, 99, 104, 101, 105,
          110>> @@
      \* fr: "Récépissé"
      <<102, 114>> :>
          <<82, 195, 169, 99, 195, 169, 112, 105, 115, 115, 195, 169>> @@
      \* it: "Ricevuta"
      <<105, 116>> :>
          <<82, 105, 99, 101, 118, 117, 116, 97>> @@
      \* en: "Receipt"
      <<101, 110>> :>
          <<82, 101, 99, 101, 105, 112, 116>>,
     acceptancePoint |->
      \* de: "Annahmestelle"
      <<100, 101>> :>
          <<65, 110, 110, 97, 104, 109, 101, 115, 116, 101, 108, 108,
          101>> @@
      \* fr: "Point de dépôt"
      <<102, 114>> :>
          <<80, 111, 105, 110, 116, 32, 100, 101, 32, 100, 195, 169, 112,
          195, 180, 116>> @@
      \* it: "Punto di accettazione"
      <<105, 116>> :>
          <<80, 117, 110, 116, 111, 32, 100, 105, 32, 97, 99, 99, 101, 116,
          116, 97, 122, 105, 111, 110, 101>> @@
      \* en: "Acceptance point"
      <<101, 110>> :>
          <<65, 99, 99, 101, 112, 116, 97, 110, 99, 101, 32, 112, 111, 105,
          110, 116>>,
     pleaseSeparate |->
      \* de: "Vor der Einzahlung abzutrennen"
      <<100, 101>> :>
          <<86, 111, 114, 32, 100, 101, 114, 32, 69, 105, 110, 122, 97,
          104, 108, 117, 110, 103, 32, 97, 98, 122, 117, 116, 114, 101,
          110, 110, 101, 110>> @@
      \* fr: "A détacher avant le versement"
      <<102, 114>> :>
          <<65, 32, 100, 195, 169, 116, 97, 99, 104, 101, 114, 32, 97, 118,
          97, 110, 116, 32, 108, 101, 32, 118, 101, 114, 115, 101, 109,
          101, 110, 116>> @@
      \* it: "De staccare prima del versamento"
      <<105, 116>> :>
          <<68, 101, 32, 115, 116, 97, 99, 99, 97, 114, 101, 32, 112, 114,
          105, 109, 97, 32, 100, 101, 108, 32, 118, 101, 114, 115, 97, 109,
          101, 110, 116, 111>> @@
      \* en: "Separate before paying in"
      <<101, 110>> :>
          <<83, 101, 112, 97, 114, 97, 116, 101, 32, 98, 101, 102, 111,
          114, 101, 32, 112, 97, 121, 105, 110, 103, 32, 105, 110>>,
     payableBy |->
      \* de: "Zahlbar durch"
      <<100, 101>> :>
          <<90, 97, 104, 108, 98, 97, 114, 32, 100, 117, 114, 99, 104>> @@
      \* fr: "Payable par"
      <<102, 114>> :>
          <<80, 97, 121, 97, 98, 108, 101, 32, 112, 97, 114>> @@
      \* it: "Pagabile da"
      <<105, 116>> :>
          <<80, 97, 103, 97, 98, 105, 108, 101, 32, 100, 97>> @@
      \* en: "Payable by"
      <<101, 110>> :>
          <<80, 97, 121, 97, 98, 108, 101, 32, 98, 121>>,
     payableByNameAddress |->
      \* de: "Zahlbar durch (Name/Adresse)"
      <<100, 101>> :>
          <<90, 97, 104, 108, 98, 97, 114, 32, 100, 117, 114, 99, 104, 32,
          40, 78, 97, 109, 101, 47, 65, 100, 114, 101, 115, 115, 101, 41>> @@
      \* fr: "Payable par (nom/adresse)"
      <<102, 114>> :>
          <<80, 97, 121, 97, 98, 108, 101, 32, 112, 97, 114, 32, 40, 110,
          111, 109, 47, 97, 100, 114, 101, 115, 115, 101, 41>> @@
      \* it: "Pagabile da (nome/indirizzo)"
      <<105, 116>> :>
          <<80, 97, 103, 97, 98, 105, 108, 101, 32, 100, 97, 32, 40, 110,
          111, 109, 101, 47, 105, 110, 100, 105, 114, 105, 122, 122, 111,
          41>> @@
      \* en: "Payable by (name/address)"
      <<101, 110>> :>
          <<80, 97, 121, 97, 98, 108, 101, 32, 98, 121, 32, 40, 110, 97,
          109, 101, 47, 97, 100, 100, 114, 101, 115, 115, 41>>,
     inFavourOf |->
      \* de: "Zugunsten"
      <<100, 101>> :>
          <<90, 117, 103, 117, 110, 115, 116, 101, 110>> @@
      \* fr: "En faveur de"
      <<102, 114>> :>
          <<69, 110, 32, 102, 97, 118, 101, 117, 114, 32, 100, 101>> @@
      \* it: "A favore di"
      <<105, 116>> :>
          <<65, 32, 102, 97, 118, 111, 114, 101, 32, 100, 105>> @@
      \* en: "In favour of"
      <<101, 110>> :>
          <<73, 110, 32, 102, 97, 118, 111, 117, 114, 32, 111, 102>>,
     dateFormat |->
      \* de: "02.01.2006"
      <<100, 101>> :>
          <<48, 50, 46, 48, 49, 46, 50, 48, 48, 54>> @@
      \* fr: "02.01.2006"
      <<102, 114>> :>
          <<48, 50, 46, 48, 49, 46, 50, 48, 48, 54>> @@
      \* it: "02.01.2006"
      <<105, 116>> :>
          <<48, 50, 46, 48, 49, 46, 50, 48, 48, 54>> @@
      \* en: "2006-01-02"
      <<101, 110>> :>
          <<50, 48, 48, 54, 45, 48, 49, 45, 48, 50>>]

\* A check of the language that knows German only.
checkLanguageGerman(lang) ==
    IF lang = <<100, 101>> THEN Nil ELSE Err("Unsupported langauge: %v", lang)

\* checkLanguage(language): every heading has a text in the language.
checkLanguage(lang) ==
    IF \A h \in DOMAIN headings : lang \in DOMAIN headings[h] THEN Nil
    ELSE Err("Unsupported langauge: %v", lang)

\* The values of info: the information of the payment part, of the receipt.
paymentPartInformation == 0

receiptPartInformation == 1

InfoInputs == {paymentPartInformation, receiptPartInformation}

\* The widths InformationSection is called with, in thousandths of the font
\* size: the tests' 8.5 * 28.35 / 10.0 = 24.0975 (a text's width is a whole
\* number of thousandths, so it exceeds 24.0975 iff it exceeds 24.097), and
\* a width that most lines of a payload exceed.
WidthInputs == {24097, 6000}

\* A faulty variant: no entity has lines.
EntityToLinesNone(en) == <<>>

\* Entity.ToLines: the lines of an entity on the slip; its error is nil.
EntityToLines(en) ==
    IF Len(en.Name) > 0
    THEN <<en.Name>>
         \o (IF en.Address.type = "CombinedAddress"
             THEN (IF en.Address.AddressLine1 # <<>>
                   THEN <<en.Address.AddressLine1>> ELSE <<>>)
                  \o <<en.Address.AddressLine2>>
             ELSE IF en.Address.type = "StructuredAddress"
             THEN (IF Len(en.Address.StreetName) > 0
                   THEN <<en.Address.StreetName
                          \o (IF Len(en.Address.BuildingNumber) > 0
                              THEN <<32>> \o en.Address.BuildingNumber
                              ELSE <<>>)>>
                   ELSE <<>>)
                  \o <<en.Address.PostCode \o <<32>> \o en.Address.TownName>>
             ELSE <<>>)
    ELSE <<>>

\* strings.IndexByte(str, c): the index, from 0, of the first c; -1 if none.
IndexByte(str, c) ==
    IF \E i \in 1..Len(str) : str[i] = c
    THEN (CHOOSE i \in 1..Len(str) : str[i] = c /\ \A j \in 1..(i - 1) : str[j] # c) - 1
    ELSE -1

RECURSIVE SpacedLoop(_, _, _, _)
\* The loop of AmountSection, for j := firstSpace; j < dot; j += 3: the
\* bytes str[j:j+3] appended to spaced, after a space unless spaced is empty.
SpacedLoop(str, j, dot, spaced) ==
    IF j < dot
    THEN SpacedLoop(str, j + 3, dot,
                    (IF spaced # <<>> THEN spaced \o <<32>> ELSE spaced)
                    \o SubSeq(str, j + 1, j + 3))
    ELSE spaced

\* A faulty variant: the digits are not grouped.
SpacedAmountPlain(a) == FormatF2(a)

\* The amount as AmountSection prints it: "%.2f", the digits before the
\* point in groups of three.
SpacedAmount(a) ==
    LET str == FormatF2(a)
        dot == IndexByte(str, 46)
        firstSpace == dot % 3
    IN  IF dot > 0
        THEN SpacedLoop(str, firstSpace, dot, SubSeq(str, 1, firstSpace))
             \o SubSeq(str, dot + 1, Len(str))
        ELSE str

AmountSectionData(currencyHeading, currencyValue, amountHeading, amountValue) ==
    [CurrencyHeading |-> currencyHeading, CurrencyValue |-> currencyValue,
     AmountHeading |-> amountHeading, AmountValue |-> amountValue]

\* AmountSection(p, language): the data and the error it returns.
AmountSection(pl, lang) ==
    LET err == Then(PayloadValidate(pl), checkLanguage(lang))
    IN  IF err # Nil
        THEN [data |-> AmountSectionData(<<>>, <<>>, <<>>, <<>>), err |-> err]
        ELSE [data |->
                  AmountSectionData(
                      headings.currency[lang], pl.CurrencyAmount.Currency,
                      headings.amount[lang],
                      IF AmountPositive(pl.CurrencyAmount.Amount)
                      THEN SpacedAmount(pl.CurrencyAmount.Amount) ELSE <<>>),
              err |-> Nil]

TitleSectionData(paymentPartTitle, receiptTitle) ==
    [PaymentPart |-> paymentPartTitle, Receipt |-> receiptTitle]

\* TitleSection(p, language).
TitleSection(pl, lang) ==
    LET err == Then(PayloadValidate(pl), checkLanguage(lang))
    IN  IF err # Nil
        THEN [data |-> TitleSectionData(<<>>, <<>>), err |-> err]
        ELSE [data |-> TitleSectionData(headings.paymentPart[lang],
                                        headings.receipt[lang]),
              err |-> Nil]

Paragraph(heading, ls) == [Heading |-> heading, Lines |-> ls]

\* The paragraphs InformationSection builds once the payload and the
\* language have passed: account and creditor, reference, additional
\* information, debtor.
Paragraphs(pl, lang, width, inf) ==
    LET additional ==
            (IF Len(pl.AdditionalInformation.UnstructuredMessage) > 0
             THEN <<pl.AdditionalInformation.UnstructuredMessage>> ELSE <<>>)
            \o (IF Len(BillInformationToString(
                           pl.AdditionalInformation.StructuredMessage)) > 0
                THEN <<BillInformationToString(
                           pl.AdditionalInformation.StructuredMessage)>>
                ELSE <<>>)
        debtor == EntityToLines(pl.UltimateDebtor)
    IN  <<Paragraph(headings.accountPayableTo[lang],
                    reflowAtSpace(<<pl.Account.PrintCode>>
                                  \o EntityToLines(pl.Creditor), width))>>
        \o (IF pl.Reference.type \in {"ReferenceNumber", "CreditorReference"}
            THEN <<Paragraph(headings.reference[lang],
                             reflowAtSpace(<<pl.Reference.print>>, width))>>
            ELSE <<>>)
        \o (IF inf = paymentPartInformation /\ Len(additional) > 0
            THEN <<Paragraph(headings.additionalInformation[lang],
                             reflowAtSpace(additional, width))>>
            ELSE <<>>)
        \o (IF Len(debtor) = 0
            THEN <<Paragraph(headings.payableByNameAddress[lang], <<>>)>>
            ELSE <<Paragraph(headings.payableBy[lang],
                             reflowAtSpace(debtor, width))>>)

\* InformationSection(p, language, width, info).
InformationSection(pl, lang, width, inf) ==
    LET err == Then(PayloadValidate(pl), checkLanguage(lang))
    IN  IF err # Nil
        THEN [data |-> <<>>, err |-> err]
        ELSE [data |-> Paragraphs(pl, lang, width, inf), err |-> Nil]

\* BorderText(language).
BorderText(lang) ==
    IF checkLanguage(lang) # Nil
    THEN [data |-> <<>>, err |-> checkLanguage(lang)]
    ELSE [data |-> headings.pleaseSeparate[lang], err |-> Nil]

\* The entry point named name, called with the language lang, returns r.
Drawn(name, r, lang) ==
    /\ Returned(name, [NewWriter(sink) EXCEPT !.err = r.err])
    /\ data' = r.data
    /\ language' = lang

CallTitleSection ==
    /\ \E lang \in LanguageInputs : Drawn("TitleSection", TitleSection(p, lang), lang)
    /\ UNCHANGED <<p, e, bi, s, field, sink, lines, maxWidth, reflowed, info>>

CallAmountSection ==
    /\ \E lang \in LanguageInputs : Drawn("AmountSection", AmountSection(p, lang), lang)
    /\ UNCHANGED <<p, e, bi, s, field, sink, lines, maxWidth, reflowed, info>>

CallInformationSection ==
    /\ \E lang \in LanguageInputs, width \in WidthInputs, inf \in InfoInputs :
           /\ Drawn("InformationSection",
                    InformationSection(p, lang, width, inf), lang)
           /\ maxWidth' = width
           /\ info' = inf
    /\ UNCHANGED <<p, e, bi, s, field, sink, lines, reflowed>>

CallBorderText ==
    /\ \E lang \in LanguageInputs : Drawn("BorderText", BorderText(lang), lang)
    /\ UNCHANGED <<p, e, bi, s, field, sink, lines, maxWidth, reflowed, info>>

Next ==
    \/ CallValidate
    \/ CallSerialize
    \/ CallCreateQR
    \/ CallAmountSerialize
    \/ CallProceduresSerialize
    \/ CallTitleSection
    \/ CallAmountSection
    \/ CallInformationSection
    \/ CallBorderText

Spec == Init /\ [][Next]_vars

(***************************************************************************)
(* Properties of Spec.                                                     *)
(***************************************************************************)
\* The eight per-field checks of Payload.Validate all pass.
PerFieldPass(pl) ==
    /\ AccountNumberValidate(pl.Account) = Nil
    /\ EntityValidate(pl.Creditor) = Nil
    /\ EntityValidate(pl.UltimateCreditor) = Nil
    /\ PaymentAmountValidate(pl.CurrencyAmount) = Nil
    /\ EntityValidate(pl.UltimateDebtor) = Nil
    /\ PaymentReferenceValidate(pl.Reference) = Nil
    /\ PaymentInformationValidate(pl.AdditionalInformation) = Nil
    /\ AlternativeProceduresValidate(pl.AlternativeProcedureParameters) = Nil

\* The first two characters of bban are "30" or "31".
HasQRPrefix(bban) ==
    /\ Len(bban) >= 2
    /\ bban[1] = 51
    /\ bban[2] \in {48, 49}

\* The account/reference rule as the documentation states it.
CrossRule(pl) ==
    IF HasQRPrefix(pl.Account.BBAN)
    THEN pl.Reference.type = "ReferenceNumber"
    ELSE pl.Reference.type \in {"nil", "CreditorReference"}

\* The payloads the rule is stated for.
CrossRuleCase(pl) ==
    /\ PerFieldPass(pl)
    /\ pl.Creditor.Name # <<>>
    /\ pl.UltimateCreditor.Name = <<>>

\* C1: for every payload whose per-field checks pass, whose creditor name
\* is non-empty and whose ultimate-creditor name is empty, Validate succeeds
\* iff the reference is the QR reference when the BBAN starts "30" or "31",
\* and is absent or an ISO creditor reference when it starts otherwise.
\* Violated: on an account whose BBAN has fewer than two bytes Validate
\* panics where the rule asks for success.
C1_CrossFieldRule ==
    (op = "Validate" /\ CrossRuleCase(p)) => (res = Nil <=> CrossRule(p))

\* The state that violates C1: the call on a one-byte BBAN panicked.
C1_ShortBBANPanics ==
    /\ op = "Validate"
    /\ CrossRuleCase(p)
    /\ Len(p.Account.BBAN) < 2
    /\ p.Reference.type = "nil"
    /\ res.kind = "panic"

\* The rule of C1 on accounts whose BBAN has its two first bytes: there it
\* holds as stated.
CrossFieldRuleOnFullBBAN ==
    (op = "Validate" /\ CrossRuleCase(p) /\ Len(p.Account.BBAN) >= 2)
        => (res = Nil <=> CrossRule(p))

\* The offsets in str at which "\r\n" stands.
Separators(str) ==
    {i \in 1..(Len(str) - 1) : str[i] = 13 /\ str[i + 1] = 10}

\* The offset of the k-th "\r\n" of str.
SeparatorAt(str, k) ==
    CHOOSE i \in Separators(str) :
        Cardinality({j \in Separators(str) : j <= i}) = k

\* strings.Split(str, "\r\n") for a str in which no "\r\n" overlaps another.
Fields(str) ==
    [k \in 1..(Cardinality(Separators(str)) + 1) |->
        SubSeq(str,
               IF k = 1 THEN 1 ELSE SeparatorAt(str, k - 1) + 2,
               IF k = Cardinality(Separators(str)) + 1 THEN Len(str)
               ELSE SeparatorAt(str, k) - 1)]

\* The four address fields of an entity record.
AddressFields(a) ==
    IF a.type = "CombinedAddress"
    THEN <<a.AddressLine1, a.AddressLine2, <<>>, <<>> >>
    ELSE <<a.StreetName, a.BuildingNumber, a.PostCode, a.TownName>>

\* The seven fields of an entity record.
EntityFields(en) ==
    IF en.Name = <<>> THEN <<<<>>, <<>>, <<>>, <<>>, <<>>, <<>>, <<>> >>
    ELSE <<IF en.Address.type = "CombinedAddress" THEN StrK ELSE StrS, en.Name>>
         \o AddressFields(en.Address) \o <<en.CountryCode>>

AmountFields(pa) ==
    <<IF pa.Amount = ZeroAmount THEN <<>> ELSE FormatF2(pa.Amount), pa.Currency>>

ReferenceFields(pr) ==
    IF pr.type = "ReferenceNumber" THEN <<StrQRR, pr.digits>>
    ELSE IF pr.type = "CreditorReference" THEN <<StrSCOR, pr.digits>>
    ELSE <<StrNON, <<>> >>

InformationFields(pi) ==
    <<pi.UnstructuredMessage, StrEPD, BillInformationToString(pi.StructuredMessage)>>

ProcedureFields(vec) ==
    <<IF Len(vec) >= 1 THEN vec[1].Procedure ELSE <<>>,
      IF Len(vec) >= 2 THEN vec[2].Procedure ELSE <<>> >>

\* The fields of the wire format of pl, in the order of the standard.
WireFields(pl) ==
    <<StrSPC, Str0200, Str1, pl.Account.Code>>
    \o EntityFields(pl.Creditor)
    \o EntityFields(pl.UltimateCreditor)
    \o AmountFields(pl.CurrencyAmount)
    \o EntityFields(pl.UltimateDebtor)
    \o ReferenceFields(pl.Reference)
    \o InformationFields(pl.AdditionalInformation)
    \o ProcedureFields(pl.AlternativeProcedureParameters)

\* A call of Serialize on a valid payload and a sink that takes every write.
SerializedValid ==
    /\ op = "Serialize"
    /\ PayloadValidate(p) = Nil
    /\ sink = GoodSink

\* C2: for every valid payload, Serialize writes the header lines "SPC",
\* "0200", "1", the account code, the creditor, ultimate-creditor, amount,
\* debtor, reference, additional-information and alternative-procedures
\* records, in this order and separated by "\r\n", nothing before and
\* nothing after.
C2_FieldOrder ==
    SerializedValid => (res = Nil /\ Fields(out) = WireFields(p))

\* C2 happens: a valid payload with an amount and a debtor was written in
\* 34 fields.
C2_Written ==
    /\ SerializedValid
    /\ res = Nil
    /\ p.CurrencyAmount.Amount # ZeroAmount
    /\ p.UltimateDebtor.Name # <<>>
    /\ Len(Fields(out)) = 34

(***************************************************************************)
(* SpecEntity: a caller holds one Entity and a sink and calls              *)
(* Entity.Validate and Entity.Serialize on them.                           *)
(***************************************************************************)
EntityNames ==
    {<<>>, StrName, StrNaejm, StrNumero17,
     Repeat(LetterA, 70), Repeat(LetterA, 71),
     Repeat(LetterAUml, 35), Repeat(LetterAUml, 36)}

EntityAddresses ==
    {NoAddress, OtherAddress,
     CombinedAddress(<<>>, StrTestAddress),
     CombinedAddress(StrRueDuLac, StrZuerich),
     CombinedAddress(StrRueDuLac, <<>>),
     CombinedAddress(StrNumero17, StrZuerich),
     StructuredAddress(StrRueDuLac, Str1268, Str2501, StrBiel),
     StructuredAddress(<<>>, <<>>, Str2501, StrBiel),
     StructuredAddress(StrRueDuLac, Str1268, <<>>, StrBiel),
     StructuredAddress(StrRueDuLac, Str1268, Str2501, Repeat(LetterA, 36))}

EntityCountries == {<<>>, StrCH, StrLI, StrCHE, StrCyrillic, StrXX, StrLowerCH}

Entities ==
    {Entity(name, address, country) :
        name \in EntityNames, address \in EntityAddresses,
        country \in EntityCountries}

InitEntity ==
    /\ Idle
    /\ NoText
    /\ e \in Entities
    /\ sink \in Sinks
    /\ p = MinimalCorrectPayload
    /\ bi = EmptyBill
    /\ s = <<>>
    /\ field = "none"

CallEntityValidate ==
    /\ Returned("Entity.Validate", [NewWriter(sink) EXCEPT !.err = EntityValidate(e)])
    /\ UNCHANGED <<p, e, bi, s, field, sink, lines, maxWidth, reflowed, language, info, data>>

CallEntitySerialize ==
    /\ Returned("Entity.Serialize", EntitySerialize(e, NewWriter(sink)))
    /\ UNCHANGED <<p, e, bi, s, field, sink, lines, maxWidth, reflowed, language, info, data>>

NextEntity == CallEntityValidate \/ CallEntitySerialize

SpecEntity == InitEntity /\ [][NextEntity]_vars

\* Entity.Serialize was called with a sink that takes every write, on an
\* entity without a name or with one of the package's two address types.
EntitySerialized ==
    /\ op = "Entity.Serialize"
    /\ sink = GoodSink
    /\ e.Name # <<>> => e.Address.type \in {"CombinedAddress", "StructuredAddress"}

\* C3: Entity.Serialize emits six "\r\n" and nothing else when the name is
\* empty; otherwise seven fields separated by "\r\n": the tag "K" or "S",
\* the name, the four address fields, and last the country code.
C3_EntityRecord ==
    EntitySerialized =>
        /\ res = Nil
        /\ e.Name = <<>> => out = <<13, 10, 13, 10, 13, 10, 13, 10, 13, 10, 13, 10>>
        /\ e.Name # <<>> =>
              Fields(out) = <<IF e.Address.type = "CombinedAddress" THEN StrK ELSE StrS,
                              e.Name>>
                            \o AddressFields(e.Address) \o <<e.CountryCode>>

\* C3 happens: an entity without a name but with a country code was
\* written.
C3_EmptyNameWritten ==
    /\ EntitySerialized
    /\ e.Name = <<>>
    /\ e.CountryCode # <<>>
    /\ Len(out) = 12

\* Every rune of str is in the allow-list.
AllowedCharacters(str) ==
    \A i \in 1..Len(Runes(str)) : Runes(str)[i] \in validRunes

\* The name of en is set, of allowed characters, and not longer than
\* Entity.Validate lets it be.
ValidName(en) ==
    /\ en.Name # <<>>
    /\ AllowedCharacters(en.Name)
    /\ Len(en.Name) <= 70

\* The address of en is one of the package's two types and passes its own
\* validation.
ValidAddress(en) ==
    \/ /\ en.Address.type = "CombinedAddress"
       /\ CombinedAddressValidate(en.Address) = Nil
    \/ /\ en.Address.type = "StructuredAddress"
       /\ StructuredAddressValidate(en.Address) = Nil

EntirelyEmpty(en) ==
    /\ en.Name = <<>>
    /\ en.Address.type = "nil"
    /\ en.CountryCode = <<>>

EndOnly(y, m, d) == [Date |-> ZeroTime, End |-> Date(y, m, d)]

Bills ==
    [InvoiceNumber : {<<>>, StrInvoiceNo, StrAB},
     InvoiceDate : {NoDates, OneDate(2019, 5, 12),
                    StartAndEndDate(2017, 5, 17, 2017, 5, 21),
                    EndOnly(2017, 5, 21)},
     CustomerReference : {<<>>, StrCustomer},
     VATNumber : {<<>>, StrVATNo},
     VATDates : {NoDates, OneDate(2018, 5, 8),
                 StartAndEndDate(2018, 5, 8, 2018, 12, 31),
                 StartAndEndDate(2018, 5, 8, 2018, 5, 8),
                 StartAndEndDate(2018, 5, 8, 2018, 5, 7)},
     VATRates : {<<>>, <<TaxRate(77, 0)>>,
                 <<TaxRate(80, 10000), TaxRate(25, 518), TaxRate(77, 2500)>>},
     VATImportTaxRates : {<<>>, <<TaxRate(77, 487), TaxRate(-25, 0)>>},
     Conditions : {<<>>, <<PaymentCondition(20, 10), PaymentCondition(0, 30)>>}]

InitBill ==
    /\ Idle
    /\ NoText
    /\ bi \in Bills
    /\ p = MinimalCorrectPayload
    /\ e = EmptyEntity
    /\ sink = GoodSink
    /\ s = <<>>
    /\ field = "none"

CallToString ==
    /\ op' = "BillInformation.ToString"
    /\ out' = BillInformationToString(bi)
    /\ res' = Nil
    /\ writes' = 0
    /\ UNCHANGED <<p, e, bi, s, field, sink, lines, maxWidth, reflowed, language, info, data>>

CallBillValidate ==
    /\ op' = "BillInformation.Validate"
    /\ res' = BillInformationValidate(bi)
    /\ out' = <<>>
    /\ writes' = 0
    /\ UNCHANGED <<p, e, bi, s, field, sink, lines, maxWidth, reflowed, language, info, data>>

NextBill == CallToString \/ CallBillValidate

SpecBill == InitBill /\ [][NextBill]_vars

\* "/tag/value" when the field is present, nothing when it is absent.
Segment(tag, present, value) ==
    IF present THEN <<47>> \o Digits(tag) \o <<47>> \o value ELSE <<>>

\* A single date as YYMMDD, a range as two such dates.
DateValue(d) ==
    IF IsZero(d.End) THEN Format060102(d.Date)
    ELSE Format060102(d.Date) \o Format060102(d.End)

\* "rate", or "rate:amount" when the amount is above zero, joined by ";".
RateListValue(rates) ==
    Join([i \in 1..Len(rates) |->
             IF rates[i].Amount > 0
             THEN FormatG(rates[i].RatePercent) \o <<58>> \o FormatG(rates[i].Amount)
             ELSE FormatG(rates[i].RatePercent)],
         <<59>>)

\* "discount:days", joined by ";".
ConditionListValue(cs) ==
    Join([i \in 1..Len(cs) |->
             FormatG(cs[i].DiscountPercent) \o <<58>> \o FormatD(cs[i].NumberOfDays)],
         <<59>>)

\* A dates field is present when it has a date (an end alone is no date).
DatesPresent(d) == ~IsZero(d.Date)

NoFieldPresent(b) ==
    /\ b.InvoiceNumber = <<>>
    /\ ~DatesPresent(b.InvoiceDate)
    /\ b.CustomerReference = <<>>
    /\ b.VATNumber = <<>>
    /\ ~DatesPresent(b.VATDates)
    /\ b.VATRates = <<>>
    /\ b.VATImportTaxRates = <<>>
    /\ b.Conditions = <<>>

\* The segments of the present fields in the order of their tags.
Segments(b) ==
    Segment(10, b.InvoiceNumber # <<>>, b.InvoiceNumber)
    \o Segment(11, DatesPresent(b.InvoiceDate), DateValue(b.InvoiceDate))
    \o Segment(20, b.CustomerReference # <<>>, b.CustomerReference)
    \o Segment(30, b.VATNumber # <<>>, b.VATNumber)
    \o Segment(31, DatesPresent(b.VATDates), DateValue(b.VATDates))
    \o Segment(32, b.VATRates # <<>>, RateListValue(b.VATRates))
    \o Segment(33, b.VATImportTaxRates # <<>>, RateListValue(b.VATImportTaxRates))
    \o Segment(40, b.Conditions # <<>>, ConditionListValue(b.Conditions))

\* C4: BillInformation.ToString returns the empty string iff none of the
\* eight fields is present; otherwise "//S1" followed by one "/tag/value"
\* segment for each present field and none for an absent one, in the tag
\* order 10, 11, 20, 30, 31, 32, 33, 40.
C4_BillToString ==
    op = "BillInformation.ToString" =>
        /\ out = <<>> <=> NoFieldPresent(bi)
        /\ ~NoFieldPresent(bi) => out = <<47, 47, 83, 49>> \o Segments(bi)

\* C4 happens: a bill with VAT dates and rates but no VAT number and no
\* invoice number was rendered.
C4_SomeFieldsRendered ==
    /\ op = "BillInformation.ToString"
    /\ bi.InvoiceNumber = <<>>
    /\ bi.VATNumber = <<>>
    /\ DatesPresent(bi.VATDates)
    /\ Len(bi.VATRates) = 3
    /\ out # <<>>

(***************************************************************************)
(* Properties of Spec on validation inside Serialize and on the order of   *)
(* the checks.                                                             *)
(***************************************************************************)
\* C5, as stated: Serialize performs no validation; whether it writes and
\* what it returns depends on the sink alone, so with a sink that takes
\* every write it writes output and returns success whatever the record.
\* Violated: a record that fails Validate is refused.
C5_NoValidation ==
    (op = "Serialize" /\ sink = GoodSink) => (res = Nil /\ out # <<>>)

\* C5, amended: Serialize validates the record itself; it calls the sink
\* iff the record satisfies Validate, whatever the sink would have done.
C5_WritesIffValid ==
    op = "Serialize" => (writes > 0 <=> PayloadValidate(p) = Nil)

\* C5 happens: a record that fails Validate met a sink that takes every
\* write, and the sink was never called.
C5_InvalidNotWritten ==
    /\ op = "Serialize"
    /\ sink = GoodSink
    /\ PayloadValidate(p).kind = "error"
    /\ writes = 0
    /\ res # Nil

\* C6: on every payload on which Validate fails, Serialize and CreateQR
\* return that same failure, and no byte is written.
C6_ValidationFailureReturned ==
    (op \in {"Serialize", "CreateQR"} /\ PayloadValidate(p).kind = "error")
        => (res = PayloadValidate(p) /\ out = <<>>)

\* C6 happens: CreateQR returned the failure of Validate.
C6_CreateQRRefused ==
    /\ op = "CreateQR"
    /\ PayloadValidate(p).kind = "error"
    /\ res = PayloadValidate(p)

\* The outcomes of the eleven checks, each taken on its own, in the order
\* account, creditor, ultimate creditor, amount, debtor, reference,
\* additional information, alternative procedures, creditor name present,
\* ultimate-creditor name empty, account/reference rule.
Checks(pl) ==
    <<AccountNumberValidate(pl.Account),
      EntityValidate(pl.Creditor),
      EntityValidate(pl.UltimateCreditor),
      PaymentAmountValidate(pl.CurrencyAmount),
      EntityValidate(pl.UltimateDebtor),
      PaymentReferenceValidate(pl.Reference),
      PaymentInformationValidate(pl.AdditionalInformation),
      AlternativeProceduresValidate(pl.AlternativeProcedureParameters),
      CreditorNameValidate(pl),
      UltimateCreditorNameValidate(pl),
      CrossFieldValidate(pl)>>

Failing(cs) == {i \in 1..Len(cs) : cs[i] # Nil}

\* C7: Validate returns the failure of the first check, in the fixed order,
\* that fails, whatever the later checks find, and success only when every
\* check passes.
C7_FirstFailure ==
    op = "Validate" =>
        /\ Failing(Checks(p)) # {} => res = Checks(p)[Min(Failing(Checks(p)))]
        /\ res = Nil <=> Failing(Checks(p)) = {}

\* C7 happens: the creditor and the amount are both invalid and the
\* creditor's failure was returned.
C7_TwoFailures ==
    /\ op = "Validate"
    /\ EntityValidate(p.Creditor) # Nil
    /\ PaymentAmountValidate(p.CurrencyAmount) # Nil
    /\ res = EntityValidate(p.Creditor)

(***************************************************************************)
(* SpecChars: a caller holds one string and calls ValidateCharacterSet on  *)
(* it.                                                                     *)
(***************************************************************************)
\* The characters the strings are made of: "a", "ä", "æ", "^", a carriage
\* return, Cyrillic "Г", the combining acute accent, "…", an emoji, and two
\* bytes that are no UTF-8 on their own (0xFF and a lone continuation byte).
CharItems ==
    {Utf8(97), Utf8(228), Utf8(230), Utf8(94), Utf8(13), Utf8(1043), Utf8(769),
     Utf8(8230), Utf8(128512), <<255>>, <<164>>}

\* The strings of at most MaxStrLen such characters.
CharStrings ==
    {Concat(q) : q \in UNION {[1..k -> CharItems] : k \in 0..MaxStrLen}}

InitChars ==
    /\ Idle
    /\ NoText
    /\ s \in CharStrings
    /\ p = MinimalCorrectPayload
    /\ e = EmptyEntity
    /\ bi = EmptyBill
    /\ sink = GoodSink
    /\ field = "none"

CallValidateCharacterSet ==
    /\ op' = "ValidateCharacterSet"
    /\ res' = ValidateCharacterSet(s)
    /\ out' = <<>>
    /\ writes' = 0
    /\ UNCHANGED <<p, e, bi, s, field, sink, lines, maxWidth, reflowed, language, info, data>>

NextChars == CallValidateCharacterSet

SpecChars == InitChars /\ [][NextChars]_vars

\* The positions, among the characters of str, of those outside the
\* allow-list.
Disallowed(str) == {i \in 1..Len(Runes(str)) : Runes(str)[i] \notin validRunes}

\* C10: ValidateCharacterSet(s) succeeds iff every character of s is in the
\* allow-list, and when it fails it names the first disallowed character of
\* s in reading order.
C10_CharacterSet ==
    op = "ValidateCharacterSet" =>
        /\ res = Nil <=> Disallowed(s) = {}
        /\ Disallowed(s) # {} =>
              /\ res.kind = "error"
              /\ res.rune = Runes(s)[Min(Disallowed(s))]

\* C10 happens: of "aæГ" the character named is "æ", not "Г".
C10_FirstOfTwoNamed ==
    /\ op = "ValidateCharacterSet"
    /\ Runes(s) = <<97, 230, 1043>>
    /\ res.rune = 230

(***************************************************************************)
(* SpecLength: a caller holds the tests' minimal payload with one field    *)
(* set to a run of "a" or of "ä", and calls Validate on it. field names    *)
(* the field, s is its value, bi the structured message beside it.         *)
(***************************************************************************)
LengthFields ==
    {"Name", "AddressLine1", "AddressLine2", "StreetName", "BuildingNumber",
     "PostCode", "TownName", "Procedure", "UnstructuredMessage"}

\* The runs of at most MaxFieldLen times "a" or "ä".
LengthStrings ==
    {Repeat(c, n) : c \in {LetterA, LetterAUml}, n \in 0..MaxFieldLen}

\* The debtor whose field f is str, valid in every other field.
DebtorWith(f, str) ==
    CASE f = "Name" ->
            Entity(str, CombinedAddress(<<>>, StrTestAddress), StrCH)
      [] f = "AddressLine1" ->
            Entity(StrName, CombinedAddress(str, StrTestAddress), StrCH)
      [] f = "AddressLine2" ->
            Entity(StrName, CombinedAddress(<<>>, str), StrCH)
      [] f = "StreetName" ->
            Entity(StrName, StructuredAddress(str, Str1268, Str2501, StrBiel), StrCH)
      [] f = "BuildingNumber" ->
            Entity(StrName, StructuredAddress(StrRueDuLac, str, Str2501, StrBiel), StrCH)
      [] f = "PostCode" ->
            Entity(StrName, StructuredAddress(StrRueDuLac, Str1268, str, StrBiel), StrCH)
      [] f = "TownName" ->
            Entity(StrName, StructuredAddress(StrRueDuLac, Str1268, Str2501, str), StrCH)
      [] OTHER -> EmptyEntity

\* minimalCorrectPayload with field f set to str.
PayloadWith(f, str, bill) ==
    [MinimalCorrectPayload EXCEPT
        !.UltimateDebtor = DebtorWith(f, str),
        !.AlternativeProcedureParameters =
            IF f = "Procedure" THEN <<AlternativeProcedure(StrL1, str)>> ELSE <<>>,
        !.AdditionalInformation =
            IF f = "UnstructuredMessage" THEN PaymentInformation(str, bill)
            ELSE BaseInformation]

InitLength ==
    /\ Idle
    /\ NoText
    /\ field \in LengthFields
    /\ s \in LengthStrings
    /\ bi \in (IF field = "UnstructuredMessage" THEN {EmptyBill, ExampleBill}
               ELSE {EmptyBill})
    /\ p = PayloadWith(field, s, bi)
    /\ e = EmptyEntity
    /\ sink = GoodSink

NextLength == CallValidate

SpecLength == InitLength /\ [][NextLength]_vars

\* The ceiling the documentation gives for field f.
Ceiling(f) ==
    CASE f \in {"Name", "AddressLine1", "AddressLine2", "StreetName"} -> 70
      [] f \in {"BuildingNumber", "PostCode"} -> 16
      [] f = "TownName" -> 35
      [] f = "Procedure" -> 100
      [] f = "UnstructuredMessage" -> 140

\* What the ceiling of field f bounds: the value, for the message the value
\* followed by the encoded structured message.
Measured(f, str, bill) ==
    IF f = "UnstructuredMessage" THEN str \o BillInformationToString(bill) ELSE str

\* The reasons Validate gives when it rejects a field for its length.
LengthReasons ==
    {"Maximum name length is 70 characters: %v",
     "Maximum address line length is 70 characters: %v",
     "Maximum street name length is 70 characters: %v",
     "Maximum building number length is 16 characters: %v",
     "Maximum post code length is 16 characters: %v",
     "Maximum town name length is 35 characters: %v",
     "Maximum field length is 100 characters: %v",
     "Maximum combined length is 140: %v"}

RejectedForLength == res.kind = "error" /\ res.msg \in LengthReasons

\* C9, as stated: a field value of allowed characters is rejected for its
\* length iff its number of characters exceeds the field's ceiling.
\* Violated: the code compares len(), the number of bytes, so that 36 times
\* "ä" (36 characters, 72 bytes) is rejected as a name.
C9_CountedInCharacters ==
    op = "Validate" =>
        (RejectedForLength <=> Len(Runes(Measured(field, s, bi))) > Ceiling(field))

\* The state that violates C9: a name of 36 characters was rejected for its
\* length.
C9_ShortNameRejected ==
    /\ op = "Validate"
    /\ field = "Name"
    /\ Len(Runes(s)) = 36
    /\ res = Err("Maximum name length is 70 characters: %v", s)

\* What the code does: a field value is rejected for its length iff its
\* number of bytes exceeds the ceiling.
LengthCountedInBytes ==
    op = "Validate" =>
        (RejectedForLength <=> Len(Measured(field, s, bi)) > Ceiling(field))

(***************************************************************************)
(* The layout functions called on their own, on short lines over a small   *)
(* alphabet and on maximum widths from a grid.                             *)
(***************************************************************************)
\* Longest input line, in characters.
MaxLineLen == 4
\* The maximum widths are the multiples of a quarter of the point size up to this many.
MaxWidthSteps == 10

\* space, i, W
LineAlphabet == {<<32>>, <<105>>, <<87>>}

RECURSIVE LinesOfLen(_)
LinesOfLen(n) ==
    IF n = 0 THEN {<<>>}
    ELSE {l \o c : l \in LinesOfLen(n - 1), c \in LineAlphabet}

LineStrings == UNION {LinesOfLen(n) : n \in 0..MaxLineLen}

\* What may follow the first input line in the list.
NextLines == {<<>>, Utf8(228) \o <<32, 87>>}

LineLists == {<<l>> : l \in LineStrings} \cup {<<l, m>> : l \in LineStrings, m \in NextLines}

MaxWidths == {250 * k : k \in 0..MaxWidthSteps}

InitLayout ==
    /\ Idle
    /\ lines \in LineLists
    /\ maxWidth \in MaxWidths
    /\ p = MinimalCorrectPayload
    /\ sink = GoodSink
    /\ e = EmptyEntity
    /\ bi = EmptyBill
    /\ s = <<>>
    /\ field = "none"

\* The layout function named name is called on the inputs as constructed.
Laid(name, ls, str) ==
    /\ op = "init"
    /\ op' = name
    /\ reflowed' = ls
    /\ out' = str
    /\ UNCHANGED <<p, e, bi, s, field, sink, writes, res, lines, maxWidth, language, info, data>>

CallReflowAtRune == Laid("reflowAtRune", reflowAtRune(lines, maxWidth), <<>>)

CallReflowAtSpace == Laid("reflowAtSpace", reflowAtSpace(lines, maxWidth), <<>>)

CallShortenToWidth == Laid("shortenToWidth", <<>>, shortenToWidth(lines[1], maxWidth))

NextLayout == CallReflowAtRune \/ CallReflowAtSpace \/ CallShortenToWidth

SpecLayout == InitLayout /\ [][NextLayout]_vars

(***************************************************************************)
(* Properties of the text layout.                                          *)
(***************************************************************************)
TooWide(ls, width) == {i \in 1..Len(ls) : stringWidth(ls[i]) > width}

\* C11: every line that reflowAtSpace or reflowAtRune returns has a measured
\* width of at most the maximum width, for every list of input lines and every
\* maximum width, the lines of the character-level fallback included.
C11_WidthBound ==
    op \in {"reflowAtSpace", "reflowAtRune"} => TooWide(reflowed, maxWidth) = {}

\* C11, where it fails: every glyph of the input fits the maximum width on its
\* own, and reflowAtSpace still returns a line wider than the maximum (the
\* space put in front of an over-long word is added without a test).
C11_SpaceOverflows ==
    /\ op = "reflowAtSpace"
    /\ \A i \in 1..Len(lines) : \A k \in 1..Len(Runes(lines[i])) :
           regularWX(Runes(lines[i])[k]) <= maxWidth
    /\ TooWide(reflowed, maxWidth) # {}

RECURSIVE JoinWith(_, _)
\* The lines ls joined, seps[i] standing between line i and line i + 1.
JoinWith(ls, seps) ==
    IF ls = <<>> THEN <<>>
    ELSE IF Len(ls) = 1 THEN ls[1]
    ELSE ls[1] \o seps[1] \o JoinWith(Tail(ls), Tail(seps))

\* Some choice of a separator from Seps at every break joins ls to target.
JoinsTo(ls, target, Seps) ==
    /\ ls # <<>>
    /\ \E seps \in [1..(Len(ls) - 1) -> Seps] : JoinWith(ls, seps) = target

\* The output lines fall into consecutive groups, one per target, in order,
\* and group i joins to targets[i].
Reproduces(ls, targets, Seps) ==
    IF Len(targets) = 1 THEN JoinsTo(ls, targets[1], Seps)
    ELSE \E k \in 1..(Len(ls) - 1) :
            /\ JoinsTo(SubSeq(ls, 1, k), targets[1], Seps)
            /\ JoinsTo(SubSeq(ls, k + 1, Len(ls)), targets[2], Seps)

\* The words of the line, one space between two words.
SingleSpaced(line) == Join(stringsFields(line), <<32>>)

\* What reflowAtSpace keeps of a line: all of it when it is narrower than the
\* maximum width, its words otherwise.
KeptAtSpace(line, width) ==
    IF stringWidth(line) < width THEN line ELSE SingleSpaced(line)

\* C12 as stated: for every input line, the lines reflowAtSpace returns for it,
\* joined with one space or nothing at each break, give back the input line,
\* and the lines reflowAtRune returns for it, concatenated, give back the line.
C12_JoinReproducesLine ==
    /\ op = "reflowAtSpace" => Reproduces(reflowed, lines, {<<>>, <<32>>})
    /\ op = "reflowAtRune" => Reproduces(reflowed, lines, {<<>>})

\* C12, amended: the lines reflowAtRune returns for an input line concatenate
\* to that line; the lines reflowAtSpace returns for it join, with one space or
\* nothing at each break, to the line itself when it is narrower than the
\* maximum width and otherwise to its words separated by single spaces
\* (leading, trailing and repeated white space is not reproduced).
C12_JoinReproducesWords ==
    /\ op = "reflowAtSpace" =>
          Reproduces(reflowed,
                     [i \in 1..Len(lines) |-> KeptAtSpace(lines[i], maxWidth)],
                     {<<>>, <<32>>})
    /\ op = "reflowAtRune" => Reproduces(reflowed, lines, {<<>>})

\* A line with repeated white space was broken by reflowAtSpace.
C12_SpacesCollapsed ==
    /\ op = "reflowAtSpace"
    /\ Len(lines) = 1
    /\ Len(stringsFields(lines[1])) >= 2
    /\ lines[1] # SingleSpaced(lines[1])
    /\ Len(reflowed) >= 2

\* C13: shortenToWidth(s, w) returns s unchanged, without an ellipsis, whenever
\* the measured width of s is at most w.
C13_FittingLineUnchanged ==
    (op = "shortenToWidth" /\ stringWidth(lines[1]) <= maxWidth) => out = lines[1]

\* C13, where it fails: a line that fits the maximum width comes back cut, since
\* the loop reserves the width of the ellipsis before every rune.
C13_FittingLineCut ==
    /\ op = "shortenToWidth"
    /\ stringWidth(lines[1]) <= maxWidth
    /\ out # lines[1]

\* str is a prefix of line and shorter than it.
StrictPrefix(str, line) ==
    /\ Len(str) < Len(line)
    /\ str = SubSeq(line, 1, Len(str))

\* C14: whenever shortenToWidth(s, w) does not return s itself, it returns a
\* strict prefix of s followed by the one ellipsis glyph, and that result has a
\* measured width of at most w, for every w.
C14_ShortenedFits ==
    (op = "shortenToWidth" /\ out # lines[1]) =>
        /\ \E k \in 0..Len(lines[1]) :
              /\ StrictPrefix(SubSeq(lines[1], 1, k), lines[1])
              /\ out = SubSeq(lines[1], 1, k) \o Ellipsis
        /\ stringWidth(out) <= maxWidth

\* C14, where it fails: the maximum width is positive and smaller than the
\* ellipsis, and the ellipsis alone is returned.
C14_EllipsisTooWide ==
    /\ op = "shortenToWidth"
    /\ maxWidth > 0
    /\ out = Ellipsis
    /\ stringWidth(out) > maxWidth

(***************************************************************************)
(* Properties of the entry points of Spec.                                 *)
(***************************************************************************)
\* The operations that are to return a result for every payload.
TotalOperations ==
    {"Validate", "Serialize", "TitleSection", "AmountSection", "InformationSection"}

\* C15: for every payload a caller can build by assigning fields, an account
\* with a BBAN of fewer than two characters included, Validate,
\* Payload.Serialize, TitleSection, AmountSection and InformationSection
\* return success or a failure value; none aborts.
C15_NoAbort ==
    op \in TotalOperations => res.kind \in {"nil", "error"}

\* C15, where it fails: a layout entry point called on an account with a
\* one-byte BBAN does not return.
C15_SectionAborts ==
    /\ op = "InformationSection"
    /\ Len(p.Account.BBAN) < 2
    /\ res.kind = "panic"

\* Serialize made a write that the sink refused.
WriteFailed == sink \in FailingSinks /\ writes >= sink.failAt

\* C16: when a write to the sink fails while Payload.Serialize encodes a valid
\* payload, be it the write of the header, of a record or of a CRLF between
\* records, Serialize returns the I/O failure, never success.
C16_FailedWriteReported ==
    (op = "Serialize" /\ PayloadValidate(p) = Nil /\ WriteFailed) => res = ErrIO

\* C16, where it fails: the sink refused the header, took every later write,
\* and Serialize returned success.
C16_HeaderFailureLost ==
    /\ op = "Serialize"
    /\ PayloadValidate(p) = Nil
    /\ sink = [failAt |-> 1, sticky |-> FALSE]
    /\ res = Nil
    /\ SubSeq(out, 1, 3) # StrSPC

ErrUltimateCreditor == Err("UltimateCreditor is currently not supported.", <<>>)

\* C17 as stated: Validate rejects every payload whose ultimate creditor has
\* a name, and the reason it gives is "UltimateCreditor is currently not
\* supported."
C17_ReasonIsUltimateCreditor ==
    (op = "Validate" /\ p.UltimateCreditor.Name # <<>>) => res = ErrUltimateCreditor

\* C17, amended: Validate rejects every payload whose ultimate creditor has a
\* name; the reason is "UltimateCreditor is currently not supported." exactly
\* when the eight per-field checks pass and the creditor has a name, and is
\* the reason of the first of those checks to fail otherwise.
C17_UltimateCreditorRejected ==
    (op = "Validate" /\ p.UltimateCreditor.Name # <<>>) =>
        /\ res.kind = "error"
        /\ res = ErrUltimateCreditor <=> (PerFieldPass(p) /\ p.Creditor.Name # <<>>)

\* A valid entity as ultimate creditor was refused for being there.
C17_ValidUltimateCreditorRefused ==
    /\ op = "Validate"
    /\ p.UltimateCreditor = BaseCreditor
    /\ res = ErrUltimateCreditor

ErrNoCreditorName == Err("No creditor name specified.", <<>>)

\* C18: Validate fails for every payload whose creditor has no name, although
\* an entirely empty entity, the creditor included, passes Entity.Validate on
\* its own; with an empty creditor and no other fault the failure is "No
\* creditor name specified."
C18_EmptyCreditorRejected ==
    (op = "Validate" /\ p.Creditor.Name = <<>>) =>
        /\ res.kind = "error"
        /\ EntirelyEmpty(p.Creditor) => EntityValidate(p.Creditor) = Nil
        /\ (EntirelyEmpty(p.Creditor) /\ PerFieldPass(p)) => res = ErrNoCreditorName

\* An empty creditor in an otherwise valid payload was refused.
C18_EmptyCreditorRefused ==
    /\ op = "Validate"
    /\ p.Creditor = EmptyEntity
    /\ EntityValidate(p.Creditor) = Nil
    /\ res = ErrNoCreditorName

\* The amount is written with two digits after the decimal point.
TwoDecimals(str) ==
    /\ Len(str) >= 4
    /\ str[Len(str) - 2] = 46
    /\ \A i \in (1..Len(str)) \ {Len(str) - 2} : str[i] \in 48..57

\* PaymentAmount.Serialize returned with its write accepted.
AmountWritten == op = "PaymentAmount.Serialize" /\ res = Nil

Contains(str, sub) ==
    \E i \in 1..(Len(str) - Len(sub) + 1) : SubSeq(str, i, i + Len(sub) - 1) = sub

\* AlternativeProcedures.Serialize returned, its write accepted, on a list of
\* at most two entries.
ProceduresWritten ==
    /\ op = "AlternativeProcedures.Serialize"
    /\ res = Nil
    /\ Len(p.AlternativeProcedureParameters) <= 2

\* C20: for a list of zero, one or two entries AlternativeProcedures.Serialize
\* writes exactly two fields joined by one CRLF; field k is the procedure text
\* of entry k when the list has that entry and is empty otherwise; no label is
\* written.
C20_TwoProcedureFields ==
    ProceduresWritten =>
        LET vec == p.AlternativeProcedureParameters
        IN  /\ Cardinality(Separators(out)) = 1
            /\ Len(Fields(out)) = 2
            /\ \A k \in 1..2 :
                   Fields(out)[k] = IF k <= Len(vec) THEN vec[k].Procedure ELSE <<>>
            /\ \A k \in 1..Len(vec) :
                   vec[k].Label # <<>> => ~Contains(out, vec[k].Label)

\* A list of one entry was written: its procedure, CRLF, and an empty field.
C20_OneEntryWritten ==
    /\ ProceduresWritten
    /\ Len(p.AlternativeProcedureParameters) = 1
    /\ p.AlternativeProcedureParameters[1].Label # <<>>
    /\ out = p.AlternativeProcedureParameters[1].Procedure \o CRLF

(***************************************************************************)
(* The payment amount on its own: PaymentAmount.Validate and               *)
(* PaymentAmount.Serialize on every pairing of a currency and an amount.   *)
(***************************************************************************)
\* "CHF", "EUR", "USD", "SEK" and the empty string.
CurrencyInputs == {StrCHF, StrEUR, <<85, 83, 68>>, <<83, 69, 75>>, <<>>}

\* Finite amounts: unset, below a cent, ordinary, with two and three groups
\* of thousands, at both sides of the largest amount accepted, and negative.
AmountInputs ==
    {ZeroAmount, Amount(FALSE, 0, 4), Amount(FALSE, 17, 0), Amount(FALSE, 123, 450),
     Amount(FALSE, 1234, 568), Amount(FALSE, 3949, 750), Amount(FALSE, 1234567, 0),
     Amount(FALSE, 999999999, 994), Amount(FALSE, 999999999, 996),
     Amount(FALSE, 1234567890, 0), Amount(TRUE, 17, 0), Amount(TRUE, 0, 4)}

PaymentAmounts == [Amount : AmountInputs, Currency : CurrencyInputs]

InitAmount ==
    /\ Idle
    /\ NoText
    /\ \E pa \in PaymentAmounts : p = [MinimalCorrectPayload EXCEPT !.CurrencyAmount = pa]
    /\ sink \in Sinks
    /\ e = EmptyEntity
    /\ bi = EmptyBill
    /\ s = <<>>
    /\ field = "none"

CallAmountValidate ==
    /\ Returned("PaymentAmount.Validate",
                [NewWriter(sink) EXCEPT !.err = PaymentAmountValidate(p.CurrencyAmount)])
    /\ UNCHANGED <<p, e, bi, s, field, sink, lines, maxWidth, reflowed, language, info, data>>

NextAmount == CallAmountValidate \/ CallAmountSerialize \/ CallAmountSection

SpecAmount == InitAmount /\ [][NextAmount]_vars

\* a < 0, for a finite amount.
BelowZero(a) == a.neg /\ (a.units # 0 \/ a.milli # 0)

\* The amount rounds to at most 999999999.99.
RoundsWithinLimit(a) ==
    \/ a.units < 999999999
    \/ a.units = 999999999 /\ a.milli < 995

\* C21: PaymentAmount.Validate succeeds iff the currency is "CHF" or "EUR",
\* the amount is not negative and the amount rounded to two decimals takes at
\* most 12 characters, 999999999.99 being the largest rendering accepted and
\* an amount rounding to 1000000000.00 being rejected; when currency and
\* amount are both invalid the failure reported is the currency's.
C21_AmountValidate ==
    op = "PaymentAmount.Validate" =>
        LET pa == p.CurrencyAmount
        IN  /\ res = Nil <=>
                  /\ pa.Currency \in {StrCHF, StrEUR}
                  /\ ~BelowZero(pa.Amount)
                  /\ RoundsWithinLimit(pa.Amount)
            /\ res = Nil => Len(FormatF2(pa.Amount)) <= 12
            /\ pa.Currency \notin {StrCHF, StrEUR} =>
                  res = Err("Currency must be CHF or EUR: %v", pa.Currency)

\* The amount 999999999.996 rounds up to 1000000000.00 and was rejected as
\* too large.
C21_RoundedUpRejected ==
    /\ op = "PaymentAmount.Validate"
    /\ p.CurrencyAmount.Amount = Amount(FALSE, 999999999, 996)
    /\ FormatF2(p.CurrencyAmount.Amount) = <<49, 48, 48, 48, 48, 48, 48, 48, 48, 48, 46, 48, 48>>
    /\ res = Err("Amount too large: %v", <<>>)

(***************************************************************************)
(* The alternative procedures on their own: AlternativeProcedures.Validate *)
(* and AlternativeProcedures.Serialize on lists of up to three entries.    *)
(***************************************************************************)
\* "", "L1", "Ü" and "Ĳ" (U+0132, outside the allow-list).
LabelInputs == {<<>>, StrL1, Utf8(220), Utf8(306)}

\* "", "P1", "ø" (U+00F8, outside the allow-list), and 100 and 101 times "a".
ProcedureInputs == {<<>>, StrP1, Utf8(248), Repeat(LetterA, 100), Repeat(LetterA, 101)}

ProcedureEntries ==
    {AlternativeProcedure(l, q) : l \in LabelInputs, q \in ProcedureInputs}

\* The entries a third place in the list is filled with.
ThirdEntries ==
    {AlternativeProcedure(StrL3, StrP3), AlternativeProcedure(<<>>, Utf8(248))}

ProcedureLists ==
    {<<>>}
    \cup {<<a>> : a \in ProcedureEntries}
    \cup {<<a, b>> : a \in ProcedureEntries, b \in ProcedureEntries}
    \cup {<<a, b, c>> : a \in ThirdEntries, b \in ThirdEntries, c \in ThirdEntries}

InitProcedures ==
    /\ Idle
    /\ NoText
    /\ \E vec \in ProcedureLists :
           p = [MinimalCorrectPayload EXCEPT !.AlternativeProcedureParameters = vec]
    /\ sink = GoodSink
    /\ e = EmptyEntity
    /\ bi = EmptyBill
    /\ s = <<>>
    /\ field = "none"

CallProceduresValidate ==
    /\ Returned("AlternativeProcedures.Validate",
                [NewWriter(sink) EXCEPT
                    !.err = AlternativeProceduresValidate(p.AlternativeProcedureParameters)])
    /\ UNCHANGED <<p, e, bi, s, field, sink, lines, maxWidth, reflowed, language, info, data>>

NextProcedures == CallProceduresValidate \/ CallProceduresSerialize

SpecProcedures == InitProcedures /\ [][NextProcedures]_vars

\* The entry has a label and a procedure, both of allowed characters, and
\* the procedure is within the ceiling as Validate measures it.
ValidProcedure(ap) ==
    /\ ap.Label # <<>>
    /\ ap.Procedure # <<>>
    /\ AllowedCharacters(ap.Label)
    /\ AllowedCharacters(ap.Procedure)
    /\ Len(ap.Procedure) <= 100

DayNumber(t) == t.y * 10000 + t.m * 100 + t.d

\* The dates have a start and an end.
IsRange(dates) == ~IsZero(dates.Date) /\ ~IsZero(dates.End)

\* The bill passes Validate once its invoice date and VAT dates are taken out.
ValidBesidesDates(b) ==
    BillInformationValidate([b EXCEPT !.InvoiceDate = NoDates, !.VATDates = NoDates]) = Nil

\* C23: BillInformation.Validate rejects every bill whose VAT date range has
\* an end that is not strictly after its start (an end equal to the start
\* included) and every bill whose invoice date has an end date; it accepts a
\* single VAT date and a VAT range whose end is strictly after its start.
C23_BillDates ==
    op = "BillInformation.Validate" =>
        /\ (IsRange(bi.VATDates)
              /\ DayNumber(bi.VATDates.End) <= DayNumber(bi.VATDates.Date))
                => res.kind = "error"
        /\ ~IsZero(bi.InvoiceDate.End) => res.kind = "error"
        /\ (/\ IsZero(bi.InvoiceDate.End)
            /\ ~IsZero(bi.VATDates.Date)
            /\ \/ IsZero(bi.VATDates.End)
               \/ DayNumber(bi.VATDates.End) > DayNumber(bi.VATDates.Date)
            /\ ValidBesidesDates(bi))
                => res = Nil

\* A VAT range that ends on the day it starts was refused for its dates.
C23_EqualRangeRefused ==
    /\ op = "BillInformation.Validate"
    /\ IsRange(bi.VATDates)
    /\ bi.VATDates.End = bi.VATDates.Date
    /\ res = Err("End date must come after start date: %v versus %v", <<>>)

(***************************************************************************)
(* Properties of the layout entry points (Spec).                           *)
(***************************************************************************)
\* The language codes "de", "fr", "it", "en".
SupportedLanguages == {<<100, 101>>, <<102, 114>>, <<105, 116>>, <<101, 110>>}

\* The entry points that take a payload and a language.
SectionOperations == {"TitleSection", "AmountSection", "InformationSection"}

\* The entry point returned no output: its data is the zero value.
NoOutput ==
    CASE op = "TitleSection" -> data = TitleSectionData(<<>>, <<>>)
      [] op = "AmountSection" -> data = AmountSectionData(<<>>, <<>>, <<>>, <<>>)
      [] OTHER -> data = <<>>

MaxCalls == 3

\* The payloads called on: the tests' minimal payload; a QR-IBAN with its
\* reference; the tests' example bill; a debtor and an amount; a currency
\* Validate refuses; an account whose BBAN is too short to be looked at.
CallPayloads ==
    {MinimalCorrectPayload,
     [MinimalCorrectPayload EXCEPT !.Account = QRAccount31, !.Reference = QRReference],
     [MinimalCorrectPayload EXCEPT
          !.AdditionalInformation = PaymentInformation(StrBill, ExampleBill)],
     [MinimalCorrectPayload EXCEPT
          !.UltimateDebtor = StructuredEntity,
          !.CurrencyAmount = [Amount |-> Amount(FALSE, 3949, 750), Currency |-> StrCHF]],
     [MinimalCorrectPayload EXCEPT
          !.CurrencyAmount = [Amount |-> ZeroAmount, Currency |-> <<85, 83, 68>>]],
     [MinimalCorrectPayload EXCEPT !.Account = AssignedIBAN(<<51>>)]}

InitCalls ==
    /\ Idle
    /\ NoText
    /\ p \in CallPayloads \X CallPayloads
    /\ sink = GoodSink
    /\ e = EmptyEntity
    /\ bi = EmptyBill
    /\ s = <<>>
    /\ field = "none"

\* A method called on the other of two records.
ReceiverOther(records, i) == records[3 - i]

\* The receiver of a method called on the i-th record: Validate and Serialize
\* take their Payload by value.
Receiver(records, i) == records[i]

\* The call named name on the i-th record saw the record seen and returned w.
Called(name, i, seen, w) ==
    /\ Len(data) < MaxCalls
    /\ op' = name
    /\ res' = w.err
    /\ out' = w.out
    /\ writes' = w.n
    /\ data' = Append(data, [name |-> name, record |-> i, seen |-> seen,
                             res |-> w.err, out |-> w.out])
    /\ UNCHANGED <<p, e, bi, s, field, sink, lines, maxWidth, reflowed, language, info>>

CallValidateOn ==
    \E i \in 1..2 :
        Called("Validate", i, Receiver(p, i),
               [NewWriter(sink) EXCEPT !.err = PayloadValidate(Receiver(p, i))])

CallSerializeOn ==
    \E i \in 1..2 :
        Called("Serialize", i, Receiver(p, i),
               PayloadSerialize(Receiver(p, i), NewWriter(sink)))

NextCalls == CallValidateOn \/ CallSerializeOn

SpecCalls == InitCalls /\ [][NextCalls]_vars

\* What the call named name returns when it is the only call ever made on
\* record pl.
Alone(name, pl) ==
    IF name = "Validate"
    THEN [res |-> PayloadValidate(pl), out |-> <<>>]
    ELSE [res |-> PayloadSerialize(pl, NewWriter(GoodSink)).err,
          out |-> PayloadSerialize(pl, NewWriter(GoodSink)).out]

Ink(ls) == Concat([i \in 1..Len(ls) |-> Concat(stringsFields(ls[i]))])

\* The i-th input line is at most as wide as the maximum width.
Fits(i) == stringWidth(lines[i]) <= maxWidth

\* The output line printed is the input line unbroken: the line itself when
\* it is narrower than the maximum width, its words in their order otherwise,
\* and empty when the line is empty.
Unbroken(line, printed) ==
    /\ stringWidth(line) < maxWidth => printed = line
    /\ stringsFields(printed) = stringsFields(line)
    /\ line = <<>> => printed = <<>>

NoCRLF(str) == \A i \in 1..Len(str) : str[i] \notin {13, 10}

\* C27: for every valid payload whose account code and reference digits hold
\* no CR and no LF, what Serialize writes to a sink that takes every write
\* has exactly 33 CRLF and so 34 fields, none holding a CR or an LF, whatever
\* optional parts are present; the records have fixed sizes, seven fields
\* for each entity, two for the amount, two for the reference, three for the
\* additional information and two for the alternative procedures, so the
\* account code is field 4, the creditor's country field 11, the currency
\* field 20, the debtor's country field 27, the reference tag field 28 and
\* the trailer "EPD" field 31.
C27_ThirtyFourFields ==
    (SerializedValid /\ NoCRLF(p.Account.Code) /\ NoCRLF(p.Reference.digits)) =>
        /\ Cardinality(Separators(out)) = 33
        /\ Len(Fields(out)) = 34
        /\ \A k \in 1..Len(Fields(out)) : NoCRLF(Fields(out)[k])
        /\ Fields(out)[4] = p.Account.Code
        /\ Fields(out)[11] = p.Creditor.CountryCode
        /\ Fields(out)[20] = p.CurrencyAmount.Currency
        /\ Fields(out)[27] = p.UltimateDebtor.CountryCode
        /\ Fields(out)[28] \in {StrQRR, StrSCOR, StrNON}
        /\ Fields(out)[31] = StrEPD

\* C27 happens: a valid payload with no debtor, no reference, no message
\* and no alternative procedure was written in 34 fields, 23 of them empty.
C27_EmptyPartsWritten ==
    /\ SerializedValid
    /\ p.UltimateDebtor = EmptyEntity
    /\ p.Reference = NoReference
    /\ p.AdditionalInformation = BaseInformation
    /\ p.AlternativeProcedureParameters = <<>>
    /\ p.CurrencyAmount.Amount = ZeroAmount
    /\ Len(Fields(out)) = 34
    /\ Cardinality({k \in 1..34 : Fields(out)[k] = <<>>}) = 23

\* The first two characters of the BBAN of the payload are "30" or "31".
QRPrefixed ==
    /\ Len(p.Account.BBAN) >= 2
    /\ <<p.Account.BBAN[1], p.Account.BBAN[2]>> \in {<<51, 48>>, <<51, 49>>}

\* C28: in what Serialize writes for a valid payload, field 28, the reference
\* tag, is "QRR" iff the BBAN starts "30" or "31"; otherwise it is "SCOR"
\* when the payload has an ISO creditor reference and "NON", followed by an
\* empty field, when it has no reference; the tag is never anything else and
\* never missing, and the field after "QRR" or "SCOR" is the reference.
C28_ReferenceTag ==
    SerializedValid =>
        /\ Len(Fields(out)) >= 29
        /\ Fields(out)[28] \in {<<81, 82, 82>>, <<83, 67, 79, 82>>, <<78, 79, 78>>}
        /\ Fields(out)[28] = <<81, 82, 82>> <=> QRPrefixed
        /\ Fields(out)[28] = <<81, 82, 82>> =>
               p.Reference.type = "ReferenceNumber" /\ Fields(out)[29] = p.Reference.digits
        /\ Fields(out)[28] = <<83, 67, 79, 82>> <=> p.Reference.type = "CreditorReference"
        /\ Fields(out)[28] = <<83, 67, 79, 82>> => Fields(out)[29] = p.Reference.digits
        /\ Fields(out)[28] = <<78, 79, 78>> <=> p.Reference.type = "nil"
        /\ Fields(out)[28] = <<78, 79, 78>> => Fields(out)[29] = <<>>

\* C28 happens: a QR-IBAN with its QR reference was written with the tag
\* "QRR".
C28_QRTagWritten ==
    /\ SerializedValid
    /\ QRPrefixed
    /\ p.Reference.type = "ReferenceNumber"
    /\ Fields(out)[28] = <<81, 82, 82>>
    /\ Fields(out)[29] = p.Reference.digits

(***************************************************************************)
(* Properties of the information section (Spec).                           *)
(***************************************************************************)
\* InformationSection returned paragraphs.
InformationReturned == op = "InformationSection" /\ res = Nil

\* The headings of the paragraphs returned, in order.
HeadingsReturned == [k \in 1..Len(data) |-> data[k].Heading]

\* The payload has a reference; the payment part has something to tell.
HasReference == p.Reference.type # "nil"

HasAdditional ==
    /\ info = paymentPartInformation
    /\ \/ p.AdditionalInformation.UnstructuredMessage # <<>>
       \/ BillInformationToString(p.AdditionalInformation.StructuredMessage) # <<>>

\* C29: for a valid payload and a supported language InformationSection
\* returns, in this order, the account paragraph (always, with at least one
\* line), the reference paragraph iff the payload has a reference, the
\* additional-information paragraph iff the payment part is asked for and
\* the unstructured message or the encoded structured message is not empty
\* (never for the receipt), and last the debtor paragraph: headed "payable
\* by" with at least one line when the debtor is not empty, headed "payable
\* by (name/address)" with no line when it is empty.
C29_ParagraphOrder ==
    InformationReturned =>
        /\ HeadingsReturned =
               <<headings.accountPayableTo[language]>>
               \o (IF HasReference THEN <<headings.reference[language]>> ELSE <<>>)
               \o (IF HasAdditional
                   THEN <<headings.additionalInformation[language]>> ELSE <<>>)
               \o (IF p.UltimateDebtor = EmptyEntity
                   THEN <<headings.payableByNameAddress[language]>>
                   ELSE <<headings.payableBy[language]>>)
        /\ data[1].Lines # <<>>
        /\ p.UltimateDebtor = EmptyEntity => data[Len(data)].Lines = <<>>
        /\ p.UltimateDebtor # EmptyEntity => data[Len(data)].Lines # <<>>
        /\ info = receiptPartInformation =>
               \A k \in 1..Len(data) :
                   data[k].Heading # headings.additionalInformation[language]

\* C29 happens: the payment part of a payload with a reference, a message
\* and no debtor came back in four paragraphs, the last without a line; and
\* the English headings are the ones the claim names.
C29_FourParagraphs ==
    /\ InformationReturned
    /\ language = <<101, 110>>
    /\ HasReference
    /\ HasAdditional
    /\ p.UltimateDebtor = EmptyEntity
    /\ Len(data) = 4
    /\ data[4] = Paragraph(<<80, 97, 121, 97, 98, 108, 101, 32, 98, 121, 32, 40, 110,
                             97, 109, 101, 47, 97, 100, 100, 114, 101, 115, 115, 41>>,
                           <<>>)

(***************************************************************************)
(* Properties of the amount section (SpecAmount).                          *)
(***************************************************************************)
\* str without its spaces.
Unspaced(str) == SelectSeq(str, LAMBDA c : c # 32)

\* str is digits in groups of three counted from the decimal point, one
\* space between two groups, then the point and two decimals: counted from
\* the point leftwards every fourth character is a space and the others are
\* digits, and the first character is a digit.
GroupedInThrees(str) ==
    /\ Len(str) >= 4
    /\ str[Len(str) - 2] = 46
    /\ str[Len(str) - 1] \in 48..57
    /\ str[Len(str)] \in 48..57
    /\ str[1] \in 48..57
    /\ \A i \in 1..(Len(str) - 3) :
           IF (Len(str) - 2 - i) % 4 = 0 THEN str[i] = 32 ELSE str[i] \in 48..57

====
